---- MODULE Spec2Model ----
(***************************************************************************)
(* deveyes: the image optimisation pipeline (src/src/lib/image-processor.ts)*)
(* as a state machine.  One invocation of processImage is followed from    *)
(* its arguments to its result; every await of the function is a step.     *)
(* The size of each encoded buffer is chosen by the encoder, not by the    *)
(* pipeline, and is therefore a nondeterministic input of the step.        *)
(***************************************************************************)
EXTENDS Integers, Sequences, FiniteSets, TLC

VARIABLES
    inputBuffer,    \* the argument: [width, height, format, length] of the bitmap
    options,        \* the argument: a record holding the options that were passed
    pc,             \* position inside processImage
    currentBuffer,  \* [width, height, format, length] of the working buffer
    currentWidth,
    currentHeight,
    quality,
    resized,
    compressed,
    transforms,     \* sequence of transform tags
    currentSize,
    encodes,        \* history: the JPEG encode calls made so far
    transformInfo,  \* the returned metadata block (set when pc = "done")
    previousResult, \* the caller: the result it fed back into processImage
    storageConfig,  \* getStorageConfig(): holds maxScreenshots when it is set
    files,          \* the .jpg files of the screenshot directory, with mtimes
    clock,          \* the system clock
    saved,          \* the SaveResult of the latest saveScreenshot call
    halfRoundsDown, \* per Math.round call of the calculators: whether a
                    \* product that is an exact half arrives below the half
    authFiles,      \* the files of the auth directory: name |-> content
    authResult,     \* the latest call on the saved authentication states
    browserInstance,\* the module variable of browser.ts: a browser, or null
    browsers,       \* the browsers launched so far: connected or closed
    calls,          \* the executeScreenshot calls, each at its await
    closer,         \* the closeBrowser call, at its await
    captureOptions, \* ConsoleCaptureHandler: this.options
    captured,       \* ConsoleCaptureHandler: the five message arrays
    handlers,       \* the page events the handler listens to
    arrivals        \* history: the messages the page emitted, by category

\* The state of the screenshot directory (src/src/lib/screenshot-storage.ts).
storageVars == <<storageConfig, files, clock, saved>>

\* What belongs to the caller of processImage, not to processImage.
\* The saved authentication states (src/src/lib/auth-storage.ts).
authVars == <<authFiles, authResult>>

\* The browser and the requests that use it (src/src/lib/browser.ts).
browserVars == <<browserInstance, browsers, calls, closer>>

\* One console capture handler.
consoleVars == <<captureOptions, captured, handlers, arrivals>>

callerVars ==
    <<previousResult, storageVars, halfRoundsDown, authVars, browserVars,
      consoleVars>>

\* What one invocation of processImage reads and writes.
pipelineVars ==
    <<inputBuffer, options, pc, currentBuffer, currentWidth, currentHeight,
      quality, resized, compressed, transforms, currentSize, encodes,
      transformInfo, previousResult, halfRoundsDown>>

\* What the steps of each part leave alone.
outsideStorage == <<pipelineVars, authVars, browserVars, consoleVars>>
outsideAuth    == <<pipelineVars, storageVars, browserVars, consoleVars>>
outsideBrowser == <<pipelineVars, storageVars, authVars, consoleVars>>
outsideConsole == <<pipelineVars, storageVars, authVars, browserVars>>

vars == <<inputBuffer, options, pc, currentBuffer, currentWidth, currentHeight,
          quality, resized, compressed, transforms, currentSize, encodes,
          transformInfo, callerVars>>

----------------------------------------------------------------------------
(* Configuration: src/unnamed/part_001 (config.ts)                          *)

LLM_LIMITS ==
    [ maxDimension       |-> 8000,
      optimalDimension   |-> 1568,
      minReadableWidth   |-> 800,
      targetSize         |-> 750 * 1024,
      fullPageTargetSize |-> 1536 * 1024,
      tokenDivisor       |-> 750 ]

IMAGE_DEFAULTS ==
    [ jpegQuality    |-> 85,
      minJpegQuality |-> 60,
      qualityStep    |-> 10 ]

----------------------------------------------------------------------------
(* Arithmetic of the JavaScript expressions, on exact rationals.            *)

Max(a, b) == IF a >= b THEN a ELSE b
Min(a, b) == IF a <= b THEN a ELSE b

\* Math.round(n / d) for n >= 0, d > 0: the nearest integer, halves upwards.
RoundDiv(n, d) == (2 * n + d) \div (2 * d)

RECURSIVE Gcd(_, _)
Gcd(a, b) == IF b = 0 THEN a ELSE Gcd(b, a % b)

RECURSIVE IsPowerOfTwo(_)
IsPowerOfTwo(n) == n = 1 \/ (n > 1 /\ n % 2 = 0 /\ IsPowerOfTwo(n \div 2))

\* The double a / b is the quotient itself: its denominator in lowest terms
\* is a power of two.  Any other quotient is rounded to 53 bits.
ExactQuotient(a, b) == IsPowerOfTwo(b \div Gcd(a, b))

\* n / d lies exactly between two integers.
IsHalf(n, d) == (2 * n) % d = 0 /\ ((2 * n) \div d) % 2 = 1

\* s * (a / b) is an exact half in the rationals while the double a / b is a
\* rounded one: the double product lies within one unit in the last place of
\* the half, on either side of it.
UncertainHalf(s, a, b) == IsHalf(s * a, b) /\ ~ExactQuotient(a, b)

\* Math.round(s * (a / b)), s, a >= 0, b > 0.  down: a product that is an
\* uncertain half arrives below the half, and is rounded downwards.
RoundProduct(down, s, a, b) ==
    IF down /\ UncertainHalf(s, a, b)
    THEN (s * a) \div b
    ELSE RoundDiv(s * a, b)

\* Math.round(s / (a / b)), s >= 0, a, b > 0.
RoundQuotient(down, s, a, b) ==
    IF down /\ IsHalf(s * b, a) /\ ~ExactQuotient(a, b)
    THEN (s * b) \div a
    ELSE RoundDiv(s * b, a)

\* The values Math.round(s * (a / b)) can take.
MathRound(s, a, b) ==
    { RoundProduct(down, s, a, b) : down \in BOOLEAN }

RECURSIVE SqrtFrom(_, _)
SqrtFrom(n, r) == IF r * r >= n THEN r ELSE SqrtFrom(n, r + 1)

\* The integer square root of a perfect square.
ExactSqrt(n) == SqrtFrom(n, 0)

\* Math.sqrt(targetSize / currentSize) as the fraction <<p, q>>, for sizes
\* whose quotient is a ratio of two squares.
SqrtRatio(target, size) ==
    LET g == Gcd(target, size)
    IN  <<ExactSqrt(target \div g), ExactSqrt(size \div g)>>

----------------------------------------------------------------------------
(* Dimension calculators                                                    *)

\* Faulty variant: the shorter side is taken for the side to fit.
calculateResizeDimensions_minSide(width, height, maxDimension) ==
    LET maxDim == Min(width, height)
    IN  IF maxDim <= maxDimension
        THEN [width |-> width, height |-> height]
        ELSE [width  |-> RoundDiv(width * maxDimension, maxDim),
              height |-> RoundDiv(height * maxDimension, maxDim)]

\* Faulty variant: the scaled sides are truncated instead of rounded.
calculateResizeDimensions_truncating(width, height, maxDimension) ==
    LET maxDim == Max(width, height)
    IN  IF maxDim <= maxDimension
        THEN [width |-> width, height |-> height]
        ELSE [width  |-> (width * maxDimension) \div maxDim,
              height |-> (height * maxDimension) \div maxDim]

calculateResizeDimensions(width, height, maxDimension) ==
    LET maxDim == Max(width, height)
    IN  IF maxDim <= maxDimension
        THEN [width |-> width, height |-> height]
        ELSE [width  |-> RoundProduct(halfRoundsDown.width, width,
                                      maxDimension, maxDim),
              height |-> RoundProduct(halfRoundsDown.height, height,
                                      maxDimension, maxDim)]

\* Faulty variant: the recomputed height of a narrow tall page is not clamped.
calculateFullPageDimensions_heightUnclamped(width, height, minWidth, maxHeight) ==
    IF height > maxHeight
    THEN LET scaledWidth == RoundDiv(maxHeight * width, height)
         IN  IF scaledWidth < minWidth
             THEN [width  |-> minWidth,
                   height |-> RoundDiv(minWidth * height, width)]
             ELSE [width |-> scaledWidth, height |-> maxHeight]
    ELSE IF width < minWidth
         THEN [width |-> minWidth, height |-> RoundDiv(minWidth * height, width)]
         ELSE [width |-> width, height |-> height]

\* Faulty variant: a tall page is always brought to the minimum width.
calculateFullPageDimensions_alwaysMinWidth(width, height, minWidth, maxHeight) ==
    [width  |-> minWidth,
     height |-> Min(RoundDiv(minWidth * height, width), maxHeight)]

calculateFullPageDimensions(width, height, minWidth, maxHeight) ==
    LET newHeight == RoundQuotient(halfRoundsDown.newHeight, minWidth,
                                   width, height)
    IN  IF height > maxHeight
        THEN LET scaledWidth == RoundProduct(halfRoundsDown.scaledWidth,
                                             maxHeight, width, height)
             IN  IF scaledWidth < minWidth
                 THEN [width |-> minWidth, height |-> Min(newHeight, maxHeight)]
                 ELSE [width |-> scaledWidth, height |-> maxHeight]
        ELSE IF width < minWidth
             THEN [width |-> minWidth, height |-> newHeight]
             ELSE [width |-> width, height |-> height]

----------------------------------------------------------------------------
(* The sharp calls of processImage, by what they do to a buffer's metadata. *)

\* .resize(w, h, {fit: 'fill', withoutEnlargement: false}): exactly w x h.
SharpResizeFill(buf, w, h, len) ==
    [buf EXCEPT !.width = w, !.height = h, !.length = len]

\* .resize(w, h, {fit: 'inside', withoutEnlargement: true}): the aspect ratio
\* is kept, the image is made as large as fits inside w x h, and it is never
\* enlarged.  The side that limits the scale gets its requested length, the
\* other side is the rounded scaled length.
SharpInsideDims(buf, w, h) ==
    IF buf.width <= w /\ buf.height <= h
    THEN [width |-> buf.width, height |-> buf.height]
    ELSE IF buf.width * h >= buf.height * w
         THEN [width |-> w, height |-> RoundDiv(buf.height * w, buf.width)]
         ELSE [width |-> RoundDiv(buf.width * h, buf.height), height |-> h]

SharpResizeInside(buf, w, h, len) ==
    LET d == SharpInsideDims(buf, w, h)
    IN  [buf EXCEPT !.width = d.width, !.height = d.height, !.length = len]

\* .resize(w, h, ...) throws unless both lengths are positive integers.
SharpAcceptsResize(w, h) == w >= 1 /\ h >= 1

\* .jpeg({quality, mozjpeg: true}).toBuffer(): same pixels, JPEG container,
\* a length the encoder decides.
SharpJpeg(buf, len) == [buf EXCEPT !.format = "jpeg", !.length = len]

----------------------------------------------------------------------------
(* The destructured options and the constants derived from them.            *)

maxDimension ==
    IF "maxDimension" \in DOMAIN options
    THEN options.maxDimension ELSE LLM_LIMITS.optimalDimension

initialQuality ==
    IF "quality" \in DOMAIN options
    THEN options.quality ELSE IMAGE_DEFAULTS.jpegQuality

isFullPage ==
    IF "isFullPage" \in DOMAIN options THEN options.isFullPage ELSE FALSE

\* Faulty variant: every capture gets the full-page byte budget.
targetSize_fullPageBudget == LLM_LIMITS.fullPageTargetSize

targetSize ==
    IF isFullPage
    THEN LLM_LIMITS.fullPageTargetSize
    ELSE IF "targetSize" \in DOMAIN options
         THEN options.targetSize ELSE LLM_LIMITS.targetSize

\* metadata.width ?? fallback, metadata.height ?? fallback
WidthOr(meta, fallback) ==
    IF "width" \in DOMAIN meta THEN meta.width ELSE fallback
HeightOr(meta, fallback) ==
    IF "height" \in DOMAIN meta THEN meta.height ELSE fallback

originalWidth  == WidthOr(inputBuffer, 0)
originalHeight == HeightOr(inputBuffer, 0)
originalSize   == inputBuffer.length
originalFormat == inputBuffer.format

\* getImageInfo(buffer): the metadata block, without processing.
getImageInfo(buffer) ==
    [ width  |-> WidthOr(buffer, 0),
      height |-> HeightOr(buffer, 0),
      size   |-> buffer.length,
      format |-> buffer.format ]

\* Faulty variant: the tall-page heuristic fires from 2:1 on.
isVeryTall_twoToOne == originalHeight > originalWidth * 2

\* Faulty variant: the strategy selector looks at the shorter side.
maxCurrentDim_minSide == Min(originalWidth, originalHeight)

maxCurrentDim == Max(originalWidth, originalHeight)
isVeryTall    == originalHeight > originalWidth * 3

----------------------------------------------------------------------------
(* Inputs of one invocation                                                 *)

GridWidth   == 450
GridHeight  == 1900
MaxGridCols == 3
MaxGridRows == 5

\* Captures that sit on the branch boundaries of the strategy selector.
EdgeDims ==
    { <<100, 100>>,   <<750, 750>>,   <<1568, 1568>>, <<2000, 1500>>,
      <<1500, 2000>>, <<9000, 6000>>, <<1200, 6000>>, <<1200, 9000>>,
      <<375, 7000>>,  <<100, 500>>,   <<800, 2500>>,  <<1699, 5101>>,
      <<500, 1400>>,  <<1920, 4000>>, <<8000, 8000>>, <<8001, 3000>>,
      <<3000, 200>>,  <<710, 4480>>,  <<1137, 9000>>,
      <<4000, 1>> }

InputDims ==
    EdgeDims \cup
    { <<GridWidth * i, GridHeight * j>> : i \in 1..MaxGridCols, j \in 1..MaxGridRows }

InputFormats == {"png", "jpeg"}

OptionSets ==
    { [isFullPage |-> b] : b \in BOOLEAN } \cup
    { [isFullPage |-> b, maxDimension |-> m] : b \in BOOLEAN, m \in {800, 3000} } \cup
    { [isFullPage |-> b, quality |-> q] : b \in BOOLEAN, q \in {90, 50} } \cup
    { [isFullPage |-> FALSE, targetSize |-> 0] }

\* Ratios sqrt(target / size) of the oversize buffers the encoder may return.
OverRatios == { <<1, 2>>, <<8, 17>> }

\* Lengths the encoder may return against a byte budget: inside it, exactly
\* on it, and over it.
\* The encoder knows nothing of the budget: against a budget that is not
\* positive it returns the lengths it returns against the default one.
EncoderSizes(target) ==
    LET ref == IF target > 0 THEN target ELSE LLM_LIMITS.targetSize
    IN  { ref \div 2, ref } \cup
        { (ref * r[2] * r[2]) \div (r[1] * r[1]) : r \in OverRatios }

\* Lengths of the intermediate (not yet JPEG) resized buffer; never read.
ResizedLengths == { originalSize, originalSize \div 2 }

\* Byte lengths of the raw capture handed in.
InputLengths == { 204800 }

NoResult == [pending |-> TRUE]

\* What sharp's metadata() reports of the capture: its dimensions, or, for a
\* bitmap it cannot size, no width and no height at all.
InputBuffers ==
    { [width |-> d[1], height |-> d[2], format |-> f, length |-> len] :
        d \in InputDims, f \in InputFormats, len \in InputLengths } \cup
    { [format |-> f, length |-> len] : f \in InputFormats, len \in InputLengths }

NoSaveResult == [none |-> TRUE]

\* The requests in flight at once, and the browsers ever launched.
MaxCalls == 2
MaxLaunches == 2

Requests == 1..MaxCalls

\* browserInstance = null
NoBrowser == 0

\* A request that has not been made.
NoCall ==
    [pc |-> "idle", browser |-> NoBrowser, context |-> "none", page |-> "none",
     listeners |-> FALSE, failed |-> FALSE]

NoClose == [pc |-> "idle"]

BrowserIdle ==
    /\ browserInstance = NoBrowser
    /\ browsers = <<>>
    /\ calls = [c \in Requests |-> NoCall]
    /\ closer = NoClose

\* The events a page delivers to one console capture handler.
MaxEvents == 4

Categories == {"errors", "warnings", "networkErrors", "info", "logs"}

\* The options a ConsoleCaptureHandler is constructed with.
ConsoleOptionSets ==
    { [none |-> TRUE],
      [maxMessages |-> 1],
      [captureInfo |-> TRUE, maxMessages |-> 0],
      [captureInfo |-> TRUE, captureLogs |-> TRUE, maxMessages |-> 2] }

\* The constructor: options.x ?? default.
RequiredOptions(given) ==
    [ captureInfo |-> IF "captureInfo" \in DOMAIN given
                      THEN given.captureInfo ELSE FALSE,
      captureLogs |-> IF "captureLogs" \in DOMAIN given
                      THEN given.captureLogs ELSE FALSE,
      maxMessages |-> IF "maxMessages" \in DOMAIN given
                      THEN given.maxMessages ELSE 50 ]

PageEvents == {"console", "response", "requestfailed"}

ConsoleTypes == {"error", "warning", "info", "log", "debug"}

ConsoleTexts == {"x", "y"}

\* Request URLs, as sequences of characters: a short one and one of 101
\* characters.
RequestUrls == { <<"/", "a">>, [i \in 1..101 |-> "a"] }

ResponseStatuses == {200, 404}

\* request.failure(): null, or the error.
RequestFailures == {"null", "net::ERR_FAILED"}

ConsoleIdle ==
    /\ captureOptions = RequiredOptions([none |-> TRUE])
    /\ captured = [c \in Categories |-> <<>>]
    /\ handlers = {}
    /\ arrivals = [c \in Categories |-> <<>>]

NoAuthCall == [op |-> "none"]

\* No authentication state is saved and none is asked for.
AuthIdle ==
    /\ authFiles = [f \in {} |-> <<>>]
    /\ authResult = NoAuthCall

\* The screenshot directory while nothing is saved: no limit, no file.
StorageIdle ==
    /\ storageConfig = [saveByDefault |-> FALSE]
    /\ files = {}
    /\ clock = 0
    /\ saved = NoSaveResult

\* The height bound handed to the tall-page policy ("leave some headroom").
fullPageMaxHeight == LLM_LIMITS.maxDimension - 500

\* Faulty variant: a capture over the hard limit is only brought down to that limit.
hardLimitTarget_maxDimension == LLM_LIMITS.maxDimension

\* The bound of the resize taken when the hard limit is exceeded.
hardLimitTarget == LLM_LIMITS.optimalDimension

\* The directions the calculators' roundings can take for a width x height
\* capture: either one where the product is an uncertain half, upwards (the
\* half itself, or above it) elsewhere.
RoundingChoices(w, h) ==
    LET sized == w > 0 /\ h > 0
        maxDim == Max(w, h)
        bounds == {maxDimension, hardLimitTarget}
        Dir(uncertain) == IF sized /\ uncertain THEN BOOLEAN ELSE {FALSE}
    IN  [ width       : Dir(\E b \in bounds : UncertainHalf(w, b, maxDim)),
          height      : Dir(\E b \in bounds : UncertainHalf(h, b, maxDim)),
          scaledWidth : Dir(UncertainHalf(fullPageMaxHeight, w, h)),
          newHeight   : Dir(IsHalf(LLM_LIMITS.minReadableWidth * h, w)
                            /\ ~ExactQuotient(w, h)) ]

\* Every rounding goes upwards.
HalvesUp ==
    [width |-> FALSE, height |-> FALSE, scaledWidth |-> FALSE, newHeight |-> FALSE]

Init ==
    /\ inputBuffer \in InputBuffers
    /\ options \in OptionSets
    /\ halfRoundsDown \in RoundingChoices(originalWidth, originalHeight)
    /\ previousResult = NoResult
    /\ StorageIdle
    /\ AuthIdle
    /\ BrowserIdle
    /\ ConsoleIdle
    /\ pc = "resize"
    /\ currentBuffer = inputBuffer
    /\ currentWidth = originalWidth
    /\ currentHeight = originalHeight
    /\ quality = initialQuality
    /\ resized = FALSE
    /\ compressed = FALSE
    /\ transforms = <<>>
    /\ currentSize = 0
    /\ encodes = <<>>
    /\ transformInfo = NoResult

----------------------------------------------------------------------------
(* Steps 1-2: the initial resize                                            *)

FullPageResize ==
    /\ pc = "resize"
    /\ isFullPage /\ isVeryTall
    /\ LET newDims == calculateFullPageDimensions(currentWidth, currentHeight,
                          LLM_LIMITS.minReadableWidth, fullPageMaxHeight)
       IN  IF newDims.width # currentWidth \/ newDims.height # currentHeight
           THEN /\ SharpAcceptsResize(newDims.width, newDims.height)
                /\ \E len \in ResizedLengths :
                      currentBuffer' = SharpResizeFill(currentBuffer,
                                           newDims.width, newDims.height, len)
                /\ currentWidth' = newDims.width
                /\ currentHeight' = newDims.height
                /\ resized' = TRUE
                /\ transforms' = Append(transforms,
                       [tag |-> "fullpage_resize",
                        fromWidth |-> originalWidth, fromHeight |-> originalHeight,
                        width |-> newDims.width, height |-> newDims.height])
           ELSE UNCHANGED <<currentBuffer, currentWidth, currentHeight,
                            resized, transforms>>
    /\ pc' = "encode"
    /\ UNCHANGED <<inputBuffer, options, quality, compressed, currentSize,
                   encodes, transformInfo>>
    /\ UNCHANGED callerVars

\* Faulty variant: the hard limit is tested before the tall-page heuristic.
HardLimitResize_beforeTallPage ==
    /\ pc = "resize"
    /\ maxCurrentDim > LLM_LIMITS.maxDimension
    /\ LET newDims == calculateResizeDimensions(currentWidth, currentHeight,
                                                hardLimitTarget)
       IN  /\ SharpAcceptsResize(newDims.width, newDims.height)
           /\ \E len \in ResizedLengths :
                 currentBuffer' = SharpResizeInside(currentBuffer,
                                      newDims.width, newDims.height, len)
           /\ currentWidth' = newDims.width
           /\ currentHeight' = newDims.height
           /\ resized' = TRUE
           /\ transforms' = Append(transforms,
                  [tag |-> "resized_from",
                   fromWidth |-> originalWidth, fromHeight |-> originalHeight,
                   width |-> newDims.width, height |-> newDims.height])
    /\ pc' = "encode"
    /\ UNCHANGED <<inputBuffer, options, quality, compressed, currentSize,
                   encodes, transformInfo>>
    /\ UNCHANGED callerVars

HardLimitResize ==
    /\ pc = "resize"
    /\ ~(isFullPage /\ isVeryTall)
    /\ maxCurrentDim > LLM_LIMITS.maxDimension
    /\ LET newDims == calculateResizeDimensions(currentWidth, currentHeight,
                                                hardLimitTarget)
       IN  /\ SharpAcceptsResize(newDims.width, newDims.height)
           /\ \E len \in ResizedLengths :
                 currentBuffer' = SharpResizeInside(currentBuffer,
                                      newDims.width, newDims.height, len)
           /\ currentWidth' = newDims.width
           /\ currentHeight' = newDims.height
           /\ resized' = TRUE
           /\ transforms' = Append(transforms,
                  [tag |-> "resized_from",
                   fromWidth |-> originalWidth, fromHeight |-> originalHeight,
                   width |-> newDims.width, height |-> newDims.height])
    /\ pc' = "encode"
    /\ UNCHANGED <<inputBuffer, options, quality, compressed, currentSize,
                   encodes, transformInfo>>
    /\ UNCHANGED callerVars

\* Faulty variant: the resize to the optimal dimension forgets the flag.
OptimalResize_flagForgotten ==
    /\ pc = "resize"
    /\ ~(isFullPage /\ isVeryTall)
    /\ ~(maxCurrentDim > LLM_LIMITS.maxDimension)
    /\ maxCurrentDim > maxDimension /\ ~isFullPage
    /\ LET newDims == calculateResizeDimensions(currentWidth, currentHeight,
                                                maxDimension)
       IN  /\ SharpAcceptsResize(newDims.width, newDims.height)
           /\ \E len \in ResizedLengths :
                 currentBuffer' = SharpResizeInside(currentBuffer,
                                      newDims.width, newDims.height, len)
           /\ currentWidth' = newDims.width
           /\ currentHeight' = newDims.height
           /\ transforms' = Append(transforms,
                  [tag |-> "resized_to_optimal",
                   width |-> newDims.width, height |-> newDims.height])
    /\ pc' = "encode"
    /\ UNCHANGED <<inputBuffer, options, quality, resized, compressed,
                   currentSize, encodes, transformInfo>>
    /\ UNCHANGED callerVars

OptimalResize ==
    /\ pc = "resize"
    /\ ~(isFullPage /\ isVeryTall)
    /\ ~(maxCurrentDim > LLM_LIMITS.maxDimension)
    /\ maxCurrentDim > maxDimension /\ ~isFullPage
    /\ LET newDims == calculateResizeDimensions(currentWidth, currentHeight,
                                                maxDimension)
       IN  /\ SharpAcceptsResize(newDims.width, newDims.height)
           /\ \E len \in ResizedLengths :
                 currentBuffer' = SharpResizeInside(currentBuffer,
                                      newDims.width, newDims.height, len)
           /\ currentWidth' = newDims.width
           /\ currentHeight' = newDims.height
           /\ resized' = TRUE
           /\ transforms' = Append(transforms,
                  [tag |-> "resized_to_optimal",
                   width |-> newDims.width, height |-> newDims.height])
    /\ pc' = "encode"
    /\ UNCHANGED <<inputBuffer, options, quality, compressed, currentSize,
                   encodes, transformInfo>>
    /\ UNCHANGED callerVars

NoResize ==
    /\ pc = "resize"
    /\ ~(isFullPage /\ isVeryTall)
    /\ ~(maxCurrentDim > LLM_LIMITS.maxDimension)
    /\ ~(maxCurrentDim > maxDimension /\ ~isFullPage)
    /\ pc' = "encode"
    /\ UNCHANGED <<inputBuffer, options, currentBuffer, currentWidth,
                   currentHeight, quality, resized, compressed, transforms,
                   currentSize, encodes, transformInfo>>
    /\ UNCHANGED callerVars

----------------------------------------------------------------------------
(* Step 3: first JPEG encode                                                *)

QualityTag(q) == [tag |-> "jpeg_quality", quality |-> q]

IsQualityTag(t) == t.tag = "jpeg_quality"

InitialEncode ==
    /\ pc = "encode"
    /\ \E len \in EncoderSizes(targetSize) :
          /\ currentBuffer' = SharpJpeg(currentBuffer, len)
          /\ currentSize' = len
          /\ encodes' = Append(encodes,
                 [stage |-> "initial", quality |-> quality, size |-> len])
    /\ IF originalFormat # "jpeg" \/ quality < initialQuality
       THEN /\ compressed' = TRUE
            /\ transforms' = Append(transforms, QualityTag(quality))
       ELSE UNCHANGED <<compressed, transforms>>
    /\ pc' = "loop"
    /\ UNCHANGED <<inputBuffer, options, currentWidth, currentHeight, quality,
                   resized, transformInfo>>
    /\ UNCHANGED callerVars

----------------------------------------------------------------------------
(* Step 4: the quality-reduction loop                                       *)

\* Faulty variant: the loop forgets the quality floor.
LoopContinues_noFloor(size, q) == size > targetSize

\* The while condition.
LoopContinues(size, q) ==
    size > targetSize /\ q > IMAGE_DEFAULTS.minJpegQuality

\* Faulty variant: the quality is lowered by one instead of by the step.
NextQuality_byOne(q) == q - 1

NextQuality(q) == q - IMAGE_DEFAULTS.qualityStep

\* transforms.findIndex(t => t.startsWith('jpeg_quality_')), 0 for "not found".
QualityTransformIndex(ts) ==
    IF \E i \in 1..Len(ts) : IsQualityTag(ts[i])
    THEN CHOOSE i \in 1..Len(ts) :
            /\ IsQualityTag(ts[i])
            /\ \A j \in 1..(i - 1) : ~IsQualityTag(ts[j])
    ELSE 0

\* Faulty variant: every quality change pushes a new tag.
UpdateQualityTag_append(ts, q) == Append(ts, QualityTag(q))

\* "Update transforms": replace the quality tag in place, or add the first one.
UpdateQualityTag(ts, q) ==
    LET qualityTransformIndex == QualityTransformIndex(ts)
    IN  IF qualityTransformIndex >= 1
        THEN [ts EXCEPT ![qualityTransformIndex] = QualityTag(q)]
        ELSE Append(ts, QualityTag(q))

ReduceQuality ==
    /\ pc = "loop"
    /\ LoopContinues(currentSize, quality)
    /\ quality' = NextQuality(quality)
    /\ \E len \in EncoderSizes(targetSize) :
          /\ currentBuffer' = SharpJpeg(currentBuffer, len)
          /\ currentSize' = len
          /\ encodes' = Append(encodes,
                 [stage |-> "loop", quality |-> quality', size |-> len])
    /\ compressed' = TRUE
    /\ transforms' = UpdateQualityTag(transforms, quality')
    /\ UNCHANGED <<inputBuffer, options, pc, currentWidth, currentHeight,
                   resized, transformInfo>>
    /\ UNCHANGED callerVars

----------------------------------------------------------------------------
(* Step 5: the forced resize                                                *)

\* The values newWidth / newHeight of the forced resize can take.
ForcedResizeDims(width, height, size) ==
    LET reductionRatio == SqrtRatio(targetSize, size)
    IN  { IF isFullPage /\ newWidth < LLM_LIMITS.minReadableWidth
          THEN [width |-> LLM_LIMITS.minReadableWidth, height |-> clamped]
          ELSE [width |-> newWidth, height |-> newHeight] :
            newWidth  \in MathRound(width, reductionRatio[1], reductionRatio[2]),
            newHeight \in MathRound(height, reductionRatio[1], reductionRatio[2]),
            \* height * (800 / 0) is NaN: no positive integer, written 0
            clamped   \in IF width = 0
                          THEN {0}
                          ELSE MathRound(height, LLM_LIMITS.minReadableWidth,
                                         width) }

\* Faulty variant: the forced resize is not entered in the log.
ForcedResize_untagged ==
    /\ pc = "loop"
    /\ ~LoopContinues(currentSize, quality)
    /\ currentSize > targetSize
    /\ \E newDims \in ForcedResizeDims(currentWidth, currentHeight, currentSize) :
           /\ SharpAcceptsResize(newDims.width, newDims.height)
           /\ \E len \in EncoderSizes(targetSize) :
                 /\ currentBuffer' = SharpJpeg(
                        SharpResizeInside(currentBuffer, newDims.width,
                                          newDims.height, len), len)
                 /\ currentSize' = len
                 /\ encodes' = Append(encodes,
                        [stage |-> "forced", quality |-> quality, size |-> len])
           /\ currentWidth' = newDims.width
           /\ currentHeight' = newDims.height
           /\ resized' = TRUE
    /\ pc' = "final"
    /\ UNCHANGED <<inputBuffer, options, quality, compressed, transforms,
                   transformInfo>>
    /\ UNCHANGED callerVars

ForcedResize ==
    /\ pc = "loop"
    /\ ~LoopContinues(currentSize, quality)
    /\ currentSize > targetSize
    /\ \E newDims \in ForcedResizeDims(currentWidth, currentHeight, currentSize) :
           /\ SharpAcceptsResize(newDims.width, newDims.height)
           /\ \E len \in EncoderSizes(targetSize) :
                 /\ currentBuffer' = SharpJpeg(
                        SharpResizeInside(currentBuffer, newDims.width,
                                          newDims.height, len), len)
                 /\ currentSize' = len
                 /\ encodes' = Append(encodes,
                        [stage |-> "forced", quality |-> quality, size |-> len])
           /\ currentWidth' = newDims.width
           /\ currentHeight' = newDims.height
           /\ resized' = TRUE
           /\ transforms' = Append(transforms,
                  [tag |-> "forced_resize_to",
                   width |-> newDims.width, height |-> newDims.height])
    /\ pc' = "final"
    /\ UNCHANGED <<inputBuffer, options, quality, compressed, transformInfo>>
    /\ UNCHANGED callerVars

SkipForcedResize ==
    /\ pc = "loop"
    /\ ~LoopContinues(currentSize, quality)
    /\ ~(currentSize > targetSize)
    /\ pc' = "final"
    /\ UNCHANGED <<inputBuffer, options, currentBuffer, currentWidth,
                   currentHeight, quality, resized, compressed, transforms,
                   currentSize, encodes, transformInfo>>
    /\ UNCHANGED callerVars

----------------------------------------------------------------------------
(* The result                                                               *)

\* "Get final metadata" and build the returned transformInfo.
Finish ==
    /\ pc = "final"
    /\ transformInfo' =
          [ resized        |-> resized,
            compressed     |-> compressed,
            originalWidth  |-> originalWidth,
            originalHeight |-> originalHeight,
            originalSize   |-> originalSize,
            finalWidth     |-> WidthOr(currentBuffer, currentWidth),
            finalHeight    |-> HeightOr(currentBuffer, currentHeight),
            finalSize      |-> currentBuffer.length,
            quality        |-> quality,
            transforms     |-> transforms ]
    /\ pc' = "done"
    /\ UNCHANGED <<inputBuffer, options, currentBuffer, currentWidth,
                   currentHeight, quality, resized, compressed, transforms,
                   currentSize, encodes>>
    /\ UNCHANGED callerVars

----------------------------------------------------------------------------
(* Failure                                                                  *)

\* A sharp call is what the function awaits next.
SharpCallPending ==
    \/ pc \in {"resize", "encode", "final"}
    \/ pc = "loop" /\ (LoopContinues(currentSize, quality) \/ currentSize > targetSize)

\* Faulty variant: the rejection is caught and the working buffer is returned
\* as it stands.
SharpRejects_returnsWorkingBuffer ==
    /\ SharpCallPending
    /\ transformInfo' =
          [ resized        |-> resized,
            compressed     |-> compressed,
            originalWidth  |-> originalWidth,
            originalHeight |-> originalHeight,
            originalSize   |-> originalSize,
            finalWidth     |-> currentWidth,
            finalHeight    |-> currentHeight,
            finalSize      |-> currentBuffer.length,
            quality        |-> quality,
            transforms     |-> transforms ]
    /\ pc' = "done"
    /\ UNCHANGED <<inputBuffer, options, currentBuffer, currentWidth,
                   currentHeight, quality, resized, compressed, transforms,
                   currentSize, encodes>>
    /\ UNCHANGED callerVars

\* The awaited sharp call rejects (a bitmap it cannot decode, arguments it
\* does not accept, a failure of the library).  processImage has no try/catch:
\* the rejection leaves the function and nothing is returned.
SharpRejects ==
    /\ SharpCallPending
    /\ pc' = "failed"
    /\ UNCHANGED <<inputBuffer, options, currentBuffer, currentWidth,
                   currentHeight, quality, resized, compressed, transforms,
                   currentSize, encodes, transformInfo>>
    /\ UNCHANGED callerVars

Next ==
    \/ FullPageResize
    \/ HardLimitResize
    \/ OptimalResize
    \/ NoResize
    \/ InitialEncode
    \/ ReduceQuality
    \/ ForcedResize
    \/ SkipForcedResize
    \/ Finish
    \/ SharpRejects

Spec == Init /\ [][Next]_vars

----------------------------------------------------------------------------
(* processImage run again on its own output                                 *)

\* The caller hands the returned buffer back to processImage, with the same
\* options.
Rerun ==
    /\ pc = "done"
    /\ previousResult = NoResult
    /\ previousResult' = transformInfo
    /\ inputBuffer' = currentBuffer
    /\ pc' = "resize"
    /\ currentBuffer' = currentBuffer
    /\ currentWidth' = WidthOr(currentBuffer, 0)
    /\ currentHeight' = HeightOr(currentBuffer, 0)
    /\ quality' = initialQuality
    /\ resized' = FALSE
    /\ compressed' = FALSE
    /\ transforms' = <<>>
    /\ currentSize' = 0
    /\ encodes' = <<>>
    /\ transformInfo' = NoResult
    /\ halfRoundsDown' \in RoundingChoices(WidthOr(currentBuffer, 0),
                                            HeightOr(currentBuffer, 0))
    /\ UNCHANGED <<options, storageVars, authVars, browserVars, consoleVars>>

\* The captures that are followed through a second invocation: one for each
\* strategy of the selector.
RerunDims ==
    { <<100, 100>>, <<2000, 1500>>, <<9000, 6000>>, <<375, 7000>>,
      <<1699, 5101>>, <<1200, 9000>> }

RerunInit ==
    /\ Init
    /\ <<originalWidth, originalHeight>> \in RerunDims

RerunNext == Next \/ Rerun

RerunSpec == RerunInit /\ [][RerunNext]_vars

Done == pc = "done"

----------------------------------------------------------------------------
(* The screenshot directory: src/src/lib/screenshot-storage.ts              *)
(* A string is a sequence of one-character strings.                         *)

MaxClock == 3
MaxScreenshotsSetting == 2

\* Clock ticks in one second: a filename carries the second, an mtime the tick.
TicksPerSecond == 2

Alphanumerics == {"a", "i", "o", "x", "y", "X", "Y", "3"}

toLowerCase(c) ==
    CASE c = "X" -> "x"
      [] c = "Y" -> "y"
      [] OTHER   -> c

\* .replace(/[^a-zA-Z0-9]/g, '-')
ReplaceNonAlphanumeric(str) ==
    [i \in 1..Len(str) |-> IF str[i] \in Alphanumerics THEN str[i] ELSE "-"]

\* .replace(/-+/g, '-')
RECURSIVE CollapseDashes(_)
CollapseDashes(str) ==
    IF Len(str) <= 1
    THEN str
    ELSE IF str[1] = "-" /\ str[2] = "-"
         THEN CollapseDashes(Tail(str))
         ELSE <<str[1]>> \o CollapseDashes(Tail(str))

\* .replace(/^-|-$/g, '')
TrimDash(str) ==
    LET first == IF Len(str) >= 1 /\ str[1] = "-" THEN 2 ELSE 1
        last  == IF Len(str) >= first /\ str[Len(str)] = "-"
                 THEN Len(str) - 1 ELSE Len(str)
    IN  SubSeq(str, first, last)

\* The slug of generateFilename; a url that does not parse has no host.
Slug(url) ==
    IF "host" \in DOMAIN url
    THEN LET dashed  == TrimDash(CollapseDashes(
                            ReplaceNonAlphanumeric(url.host \o url.pathname)))
             lowered == [i \in 1..Len(dashed) |-> toLowerCase(dashed[i])]
         IN  SubSeq(lowered, 1, Min(Len(lowered), 50))
    ELSE <<"s", "c", "r", "e", "e", "n", "s", "h", "o", "t">>

\* {slug}-{YYYY-MM-DD-HHmmss}.jpg: the slug and the second of the call.
generateFilename(url, now) ==
    [slug |-> Slug(url), stamp |-> now \div TicksPerSecond]

\* The urls that are captured: two pages of one host whose slugs coincide, the
\* root of that host, and a string that is no url.
Urls ==
    { [host |-> <<"a", ".", "i", "o">>, pathname |-> <<"/">>],
      [host |-> <<"a", ".", "i", "o">>, pathname |-> <<"/", "x", "_", "y">>],
      [host |-> <<"a", ".", "i", "o">>, pathname |-> <<"/", "X", "-", "Y", "/">>],
      [raw |-> <<"x", "y">>] }

FileNames(fs) == { f.file : f \in fs }

\* writeFileSync(absolutePath, buffer): a file of that name is replaced.
WriteFile(fs, filename, now) ==
    { f \in fs : f.file # filename } \cup {[file |-> filename, mtime |-> now]}

\* cleanupOldScreenshots(maxFiles): the directories it may leave.  The files
\* are sorted by mtime, oldest first, and the first filesToDelete are
\* unlinked; the sort is stable, so files of equal mtime stay in the order
\* readdirSync listed them, which the file system decides.
cleanupOldScreenshots(fs, maxFiles) ==
    LET filesToDelete == Cardinality(fs) - maxFiles
    IN  IF filesToDelete > 0
        THEN { fs \ deleted : deleted \in
                 { d \in SUBSET fs :
                     /\ Cardinality(d) = filesToDelete
                     /\ \A old \in d, kept \in fs \ d : old.mtime <= kept.mtime } }
        ELSE { fs }

\* saveScreenshot(buffer, url): write the file, then clean up if
\* maxScreenshots is configured.
SaveScreenshot ==
    \E url \in Urls :
        LET filename == generateFilename(url, clock)
            written  == WriteFile(files, filename, clock)
        IN  /\ IF "maxScreenshots" \in DOMAIN storageConfig
               THEN files' \in cleanupOldScreenshots(written,
                                                    storageConfig.maxScreenshots)
               ELSE files' = written
            /\ saved' = [filename |-> filename]
            /\ UNCHANGED <<storageConfig, clock>>
            /\ UNCHANGED outsideStorage

\* Time passes between two calls.
Tick ==
    /\ clock < MaxClock
    /\ clock' = clock + 1
    /\ UNCHANGED <<storageConfig, files, saved>>
    /\ UNCHANGED outsideStorage

\* A processed capture is at hand: an invocation of processImage that has
\* returned.
PipelineAtRest ==
    /\ inputBuffer = [width |-> 100, height |-> 100, format |-> "png",
                      length |-> 204800]
    /\ options = [isFullPage |-> FALSE]
    /\ halfRoundsDown = HalvesUp
    /\ previousResult = NoResult
    /\ pc = "done"
    /\ currentBuffer = [width |-> 100, height |-> 100, format |-> "jpeg",
                        length |-> LLM_LIMITS.targetSize \div 2]
    /\ currentWidth = 100
    /\ currentHeight = 100
    /\ quality = IMAGE_DEFAULTS.jpegQuality
    /\ resized = FALSE
    /\ compressed = TRUE
    /\ transforms = <<QualityTag(IMAGE_DEFAULTS.jpegQuality)>>
    /\ currentSize = currentBuffer.length
    /\ encodes = <<[stage |-> "initial", quality |-> quality,
                    size |-> currentSize]>>
    /\ transformInfo =
          [ resized        |-> FALSE,
            compressed     |-> TRUE,
            originalWidth  |-> 100,
            originalHeight |-> 100,
            originalSize   |-> 204800,
            finalWidth     |-> 100,
            finalHeight    |-> 100,
            finalSize      |-> currentSize,
            quality        |-> quality,
            transforms     |-> transforms ]

\* DEVEYES_MAX_SCREENSHOTS is unset or a positive number; the directory is
\* empty; a processed capture is at hand.
StorageInit ==
    /\ storageConfig \in
          { [saveByDefault |-> TRUE] } \cup
          { [saveByDefault |-> TRUE, maxScreenshots |-> n] :
              n \in 1..MaxScreenshotsSetting }
    /\ files = {}
    /\ clock = 0
    /\ saved = NoSaveResult
    /\ PipelineAtRest
    /\ AuthIdle
    /\ BrowserIdle
    /\ ConsoleIdle

StorageNext == SaveScreenshot \/ Tick

StorageSpec == StorageInit /\ [][StorageNext]_vars

----------------------------------------------------------------------------
(* Saved authentication: src/src/lib/auth-storage.ts                        *)
(* The files of the auth directory, which getAuthDir resolves once per      *)
(* process and caches.  Strings are TLA+ strings here, \o joins them.       *)

MaxAuthFiles == 2

\* URLs as they are typed: protocol, hostname, port ("" when none is typed)
\* and path; and a string that is no URL.
Url(protocol, hostname, port, pathname) ==
    [protocol |-> protocol, hostname |-> hostname, port |-> port,
     pathname |-> pathname]

AuthUrls ==
    { Url("http:",  "localhost",      "3000", "/"),
      Url("http:",  "localhost",      "3000", "/dashboard"),
      Url("https:", "localhost",      "3000", "/"),
      Url("http:",  "localhost",      "",     "/"),
      Url("http:",  "localhost",      "80",   "/dashboard"),
      Url("https:", "localhost",      "80",   "/"),
      Url("http:",  "localhost-3000", "",     "/"),
      [raw |-> "localhost:3000/dashboard"] }

\* Playwright storageState values (cookies and localStorage of a session).
StorageStates == {"session-1", "session-2"}

IsUrl(url) == "hostname" \in DOMAIN url

DefaultPort(protocol) == IF protocol = "http:" THEN "80" ELSE "443"

\* new URL(url): the port property is "" when the port is the protocol's
\* default one.
ParseUrl(url) ==
    [ protocol |-> url.protocol,
      hostname |-> url.hostname,
      port     |-> IF url.port = DefaultPort(url.protocol) THEN "" ELSE url.port,
      pathname |-> url.pathname ]

\* Defined for URLs; for any other string the function throws.
getDomainKey(url) ==
    LET parsed   == ParseUrl(url)
        hostname == parsed.hostname
        port     == parsed.port
        isDefaultPort ==
            \/ parsed.protocol = "http:" /\ (port = "" \/ port = "80")
            \/ parsed.protocol = "https:" /\ (port = "" \/ port = "443")
    IN  IF isDefaultPort THEN hostname ELSE hostname \o "-" \o port

\* The name of the file inside the auth directory.
getAuthFilePath(url) == getDomainKey(url) \o ".json"

\* JSON.stringify of the authData object: its properties in order.
JsonStringify(authData) ==
    <<authData.domainKey, authData.savedAt, authData.url, authData.storageState>>

\* JSON.parse of such a text.
JsonParse(content) ==
    [ domainKey    |-> content[1],
      savedAt      |-> content[2],
      url          |-> content[3],
      storageState |-> content[4] ]

Undefined == "undefined"

existsSync(filePath) == filePath \in DOMAIN authFiles

hasAuthState(url) == existsSync(getAuthFilePath(url))

loadAuthState(url) ==
    IF ~existsSync(getAuthFilePath(url))
    THEN Undefined
    ELSE JsonParse(authFiles[getAuthFilePath(url)]).storageState

\* The call threw before it touched a file.
Throws(op, url) ==
    /\ ~IsUrl(url)
    /\ authResult' = [op |-> op, url |-> url, threw |-> TRUE]
    /\ UNCHANGED authFiles

saveAuthState ==
    /\ \E url \in AuthUrls, storageState \in StorageStates :
           \/ Throws("save", url)
           \/ /\ IsUrl(url)
              /\ LET filePath == getAuthFilePath(url)
                     authData == [ domainKey    |-> getDomainKey(url),
                                   savedAt      |-> clock,
                                   url          |-> url,
                                   storageState |-> storageState ]
                 IN  /\ existsSync(filePath)
                           \/ Cardinality(DOMAIN authFiles) < MaxAuthFiles
                     /\ authFiles' =
                           [ f \in DOMAIN authFiles \cup {filePath} |->
                               IF f = filePath
                               THEN JsonStringify(authData)
                               ELSE authFiles[f] ]
                     /\ authResult' = [ op |-> "save", url |-> url,
                                        storageState |-> storageState,
                                        returned |-> filePath ]
    /\ UNCHANGED outsideAuth

deleteAuthState ==
    /\ \E url \in AuthUrls :
           \/ Throws("delete", url)
           \/ /\ IsUrl(url)
              /\ LET filePath == getAuthFilePath(url)
                 IN  IF ~existsSync(filePath)
                     THEN /\ UNCHANGED authFiles
                          /\ authResult' = [ op |-> "delete", url |-> url,
                                             returned |-> FALSE ]
                     ELSE /\ authFiles' =
                                [ f \in DOMAIN authFiles \ {filePath} |->
                                    authFiles[f] ]
                          /\ authResult' = [ op |-> "delete", url |-> url,
                                             returned |-> TRUE ]
    /\ UNCHANGED outsideAuth

\* executeScreenshot looks the saved state of the URL's domain up and hands
\* it to createPage (src/src/tools/screenshot.ts).
LookUpAuthState ==
    /\ \E url \in AuthUrls :
           \/ Throws("screenshot", url)
           \/ /\ IsUrl(url)
              /\ authResult' =
                    [ op |-> "screenshot", url |-> url,
                      storageState |-> IF hasAuthState(url)
                                       THEN loadAuthState(url) ELSE Undefined,
                      authenticated |-> hasAuthState(url)
                                        /\ loadAuthState(url) # Undefined ]
              /\ UNCHANGED authFiles
    /\ UNCHANGED outsideAuth

AuthInit ==
    /\ PipelineAtRest
    /\ StorageIdle
    /\ AuthIdle
    /\ BrowserIdle
    /\ ConsoleIdle

AuthNext == saveAuthState \/ deleteAuthState \/ LookUpAuthState

AuthSpec == AuthInit /\ [][AuthNext]_vars

----------------------------------------------------------------------------
(* The browser and the screenshot requests: src/src/lib/browser.ts and      *)
(* executeScreenshot of src/src/tools/screenshot.ts.  The requests are      *)
(* asynchronous functions on one event loop: a step runs a request from one *)
(* await to the next, and the requests' steps interleave.  What the page    *)
(* shows, what processImage makes of the capture and where the result is    *)
(* saved is not followed here; each of these calls just resolves or rejects.*)
(* getBrowserContext is called nowhere, so browserContext stays null.       *)

\* browserInstance.isConnected()
isConnected(b) == browsers[b] = "connected"

\* The request c goes on with the fields of change.
Continue(c, change) ==
    calls' = [calls EXCEPT ![c] =
                [f \in DOMAIN calls[c] |->
                    IF f \in DOMAIN change THEN change[f] ELSE calls[c][f]]]

\* executeScreenshot up to its first await: the configuration, the viewport,
\* the domain key (which throws for a string that is no URL), the saved
\* authentication state; then createPage, which calls getBrowser.  getBrowser
\* returns the instance it finds, or starts to install and launch one.
BeginScreenshot(c) ==
    /\ calls[c].pc = "idle"
    /\ \/ Continue(c, [pc |-> "rejected"])
       \/ IF browserInstance = NoBrowser \/ ~isConnected(browserInstance)
          THEN Continue(c, [pc |-> "ensureBrowserInstalled"])
          ELSE Continue(c, [pc |-> "newContext", browser |-> browserInstance])
    /\ UNCHANGED <<browserInstance, browsers, closer>>
    /\ UNCHANGED outsideBrowser

\* await ensureBrowserInstalled(...): false makes getBrowser throw, true
\* makes it call launcher.launch.
BrowserInstalled(c) ==
    /\ calls[c].pc = "ensureBrowserInstalled"
    /\ \E installed \in BOOLEAN :
          Continue(c, [pc |-> IF installed THEN "launch" ELSE "rejected"])
    /\ UNCHANGED <<browserInstance, browsers, closer>>
    /\ UNCHANGED outsideBrowser

\* browserInstance = await launcher.launch(...): the browser that was
\* launched is assigned, the exit handlers are registered, the instance is
\* returned to createPage, which asks it for a context.  Or the launch fails.
BrowserLaunched(c) ==
    /\ calls[c].pc = "launch"
    /\ \/ /\ Len(browsers) < MaxLaunches
          /\ browsers' = Append(browsers, "connected")
          /\ browserInstance' = Len(browsers) + 1
          /\ Continue(c, [pc |-> "newContext", browser |-> Len(browsers) + 1])
       \/ /\ UNCHANGED <<browsers, browserInstance>>
          /\ Continue(c, [pc |-> "rejected"])
    /\ UNCHANGED closer
    /\ UNCHANGED outsideBrowser

\* await browser.newContext(...), then context.newPage() is called.
ContextCreated(c) ==
    /\ calls[c].pc = "newContext"
    /\ \/ /\ isConnected(calls[c].browser)
          /\ Continue(c, [pc |-> "newPage", context |-> "open"])
       \/ Continue(c, [pc |-> "rejected"])
    /\ UNCHANGED <<browserInstance, browsers, closer>>
    /\ UNCHANGED outsideBrowser

\* await context.newPage(): createPage returns the page, executeScreenshot
\* creates the console capture, attaches it and enters the try block with
\* navigateToUrl.  When newPage rejects, so does executeScreenshot.
PageCreated(c) ==
    /\ calls[c].pc = "newPage"
    /\ \/ /\ calls[c].context = "open"
          /\ Continue(c, [pc |-> "navigateToUrl", page |-> "open",
                          listeners |-> TRUE])
       \/ Continue(c, [pc |-> "rejected"])
    /\ UNCHANGED <<browserInstance, browsers, closer>>
    /\ UNCHANGED outsideBrowser

\* The finally block up to its await: detach, then closePage calls
\* page.close().
EnterFinally(c, failed) ==
    Continue(c, [pc |-> "page.close", listeners |-> FALSE, failed |-> failed])

\* Faulty variant: a failure leaves the function without its finally block.
AwaitInTry_withoutFinally(c, awaited, next) ==
    /\ calls[c].pc = awaited
    /\ \/ /\ calls[c].page = "open"
          /\ Continue(c, [pc |-> next])
       \/ Continue(c, [pc |-> "rejected", failed |-> TRUE])
    /\ UNCHANGED <<browserInstance, browsers, closer>>
    /\ UNCHANGED outsideBrowser

\* An await inside the try block settles: the function goes on to the next
\* one, or the rejection takes it to the finally block.
AwaitInTry(c, awaited, next) ==
    /\ calls[c].pc = awaited
    /\ \/ /\ calls[c].page = "open"
          /\ Continue(c, [pc |-> next])
       \/ EnterFinally(c, TRUE)
    /\ UNCHANGED <<browserInstance, browsers, closer>>
    /\ UNCHANGED outsideBrowser

\* await navigateToUrl(page, url, waitFor) settles.
Navigated(c) ==
    /\ calls[c].pc = "navigateToUrl"
    /\ AwaitInTry(c, "navigateToUrl", "captureScreenshot")

\* await captureScreenshot(page, fullPage) settles.
Captured(c) ==
    /\ calls[c].pc = "captureScreenshot"
    /\ AwaitInTry(c, "captureScreenshot", "processImage")

\* await processImage(...) settles.  After it nothing is awaited inside the
\* try block: the capture is read, the screenshot is saved if that is asked
\* for (which may throw), the output is built and returned.
Processed(c) ==
    /\ calls[c].pc = "processImage"
    /\ \/ /\ calls[c].page = "open"
          /\ \E saveThrows \in BOOLEAN : EnterFinally(c, saveThrows)
       \/ EnterFinally(c, TRUE)
    /\ UNCHANGED <<browserInstance, browsers, closer>>
    /\ UNCHANGED outsideBrowser

\* closePage: await page.close().catch(...) settles; context.close() is
\* called.  close() resolves once the page is closed and rejects only for a
\* page that is gone already; the rejection is swallowed.
PageClosed(c) ==
    /\ calls[c].pc = "page.close"
    /\ Continue(c, [pc |-> "context.close", page |-> "closed"])
    /\ UNCHANGED <<browserInstance, browsers, closer>>
    /\ UNCHANGED outsideBrowser

\* closePage: await context.close().catch(...) settles; executeScreenshot
\* resolves with its output or rejects with the failure of the try block.
ContextClosed(c) ==
    /\ calls[c].pc = "context.close"
    /\ Continue(c, [pc |-> IF calls[c].failed THEN "rejected" ELSE "resolved",
                    context |-> "closed"])
    /\ UNCHANGED <<browserInstance, browsers, closer>>
    /\ UNCHANGED outsideBrowser

\* The result is with the client, which may send its next request.
Answered(c) ==
    /\ calls[c].pc \in {"resolved", "rejected"}
    /\ calls' = [calls EXCEPT ![c] = NoCall]
    /\ UNCHANGED <<browserInstance, browsers, closer>>
    /\ UNCHANGED outsideBrowser

\* closeBrowser up to its await: browserInstance.close() is called.
CloseBrowserCalled ==
    /\ closer = NoClose
    /\ browserInstance # NoBrowser
    /\ closer' = [pc |-> "browserInstance.close", browser |-> browserInstance]
    /\ UNCHANGED <<browserInstance, browsers, calls>>
    /\ UNCHANGED outsideBrowser

\* await browserInstance.close().catch(...) settles: that browser is closed
\* with its contexts and pages, and browserInstance is set to null.
CloseBrowserDone ==
    /\ closer.pc = "browserInstance.close"
    /\ browsers' = [browsers EXCEPT ![closer.browser] = "closed"]
    /\ calls' = [c \in Requests |->
                    IF calls[c].browser = closer.browser
                    THEN [calls[c] EXCEPT
                            !.context = IF @ = "open" THEN "closed" ELSE @,
                            !.page = IF @ = "open" THEN "closed" ELSE @]
                    ELSE calls[c]]
    /\ browserInstance' = NoBrowser
    /\ closer' = NoClose
    /\ UNCHANGED outsideBrowser

BrowserInit ==
    /\ PipelineAtRest
    /\ StorageIdle
    /\ AuthIdle
    /\ BrowserIdle
    /\ ConsoleIdle

BrowserNext ==
    \/ \E c \in Requests : BeginScreenshot(c)
    \/ \E c \in Requests : BrowserInstalled(c)
    \/ \E c \in Requests : BrowserLaunched(c)
    \/ \E c \in Requests : ContextCreated(c)
    \/ \E c \in Requests : PageCreated(c)
    \/ \E c \in Requests : Navigated(c)
    \/ \E c \in Requests : Captured(c)
    \/ \E c \in Requests : Processed(c)
    \/ \E c \in Requests : PageClosed(c)
    \/ \E c \in Requests : ContextClosed(c)
    \/ \E c \in Requests : Answered(c)
    \/ CloseBrowserCalled
    \/ CloseBrowserDone

BrowserSpec == BrowserInit /\ [][BrowserNext]_vars

----------------------------------------------------------------------------
(* Console capture: class ConsoleCaptureHandler (src/src/lib/browser.ts,    *)
(* from line 621).  One handler is followed from its construction; the page *)
(* delivers console, response and requestfailed events to its listeners.    *)

\* `... (truncated, max ${maxMessages} messages)`
TruncationMarker(maxMessages) ==
    "... (truncated, max " \o ToString(maxMessages) \o " messages)"

\* Faulty variant: the marker is pushed whenever the list is full.
addMessage_markerEveryTime(array, message) ==
    IF Len(array) < captureOptions.maxMessages
    THEN Append(array, message)
    ELSE Append(array, TruncationMarker(captureOptions.maxMessages))

\* The array after addMessage(array, message).
addMessage(array, message) ==
    IF Len(array) < captureOptions.maxMessages
    THEN Append(array, message)
    ELSE IF Len(array) = captureOptions.maxMessages
    THEN Append(array, TruncationMarker(captureOptions.maxMessages))
    ELSE array

truncateUrl(url) ==
    IF Len(url) <= 100
    THEN url
    ELSE SubSeq(url, 1, 100 - 3) \o <<".", ".", ".">>

\* One more event reaches the listeners; category is where a message of its
\* kind belongs.
Arrives(category, message) ==
    /\ Len(arrivals["errors"]) + Len(arrivals["warnings"])
         + Len(arrivals["networkErrors"]) + Len(arrivals["info"])
         + Len(arrivals["logs"]) < MaxEvents
    /\ arrivals' = [arrivals EXCEPT ![category] = Append(@, message)]

Record(category, message) ==
    captured' = [captured EXCEPT ![category] = addMessage(@, message)]

attach ==
    /\ handlers = {}
    /\ handlers' = PageEvents
    /\ UNCHANGED <<captureOptions, captured, arrivals>>
    /\ UNCHANGED outsideConsole

detach ==
    /\ handlers # {}
    /\ handlers' = {}
    /\ UNCHANGED <<captureOptions, captured, arrivals>>
    /\ UNCHANGED outsideConsole

\* this.consoleHandler
consoleHandler ==
    /\ "console" \in handlers
    /\ \E type \in ConsoleTypes, text \in ConsoleTexts :
          CASE type = "error" ->
                 /\ Arrives("errors", text)
                 /\ Record("errors", text)
            [] type = "warning" ->
                 /\ Arrives("warnings", text)
                 /\ Record("warnings", text)
            [] type = "info" ->
                 /\ Arrives("info", text)
                 /\ IF captureOptions.captureInfo
                    THEN Record("info", text)
                    ELSE UNCHANGED captured
            [] type = "log" ->
                 /\ Arrives("logs", text)
                 /\ IF captureOptions.captureLogs
                    THEN Record("logs", text)
                    ELSE UNCHANGED captured
            [] OTHER -> UNCHANGED <<captured, arrivals>>
    /\ UNCHANGED <<captureOptions, handlers>>
    /\ UNCHANGED outsideConsole

\* this.responseHandler
responseHandler ==
    /\ "response" \in handlers
    /\ \E status \in ResponseStatuses, url \in RequestUrls :
          IF status >= 400
          THEN LET message == <<"GET", truncateUrl(url), status>>
               IN  /\ Arrives("networkErrors", message)
                   /\ Record("networkErrors", message)
          ELSE UNCHANGED <<captured, arrivals>>
    /\ UNCHANGED <<captureOptions, handlers>>
    /\ UNCHANGED outsideConsole

\* this.requestFailedHandler
requestFailedHandler ==
    /\ "requestfailed" \in handlers
    /\ \E failure \in RequestFailures, url \in RequestUrls :
          IF failure # "null"
          THEN LET message == <<"GET", truncateUrl(url), "FAILED:", failure>>
               IN  /\ Arrives("networkErrors", message)
                   /\ Record("networkErrors", message)
          ELSE UNCHANGED <<captured, arrivals>>
    /\ UNCHANGED <<captureOptions, handlers>>
    /\ UNCHANGED outsideConsole

\* What getCapture() returns.
getCapture ==
    LET result == [ c \in {"errors", "warnings", "networkErrors"} |->
                      captured[c] ]
        withInfo == IF captureOptions.captureInfo
                    THEN [ c \in DOMAIN result \cup {"info"} |->
                             IF c = "info" THEN captured["info"] ELSE result[c] ]
                    ELSE result
    IN  IF captureOptions.captureLogs
        THEN [ c \in DOMAIN withInfo \cup {"logs"} |->
                 IF c = "logs" THEN captured["logs"] ELSE withInfo[c] ]
        ELSE withInfo

ConsoleInit ==
    /\ PipelineAtRest
    /\ StorageIdle
    /\ AuthIdle
    /\ BrowserIdle
    /\ captureOptions \in { RequiredOptions(given) : given \in ConsoleOptionSets }
    /\ captured = [c \in Categories |-> <<>>]
    /\ handlers = {}
    /\ arrivals = [c \in Categories |-> <<>>]

ConsoleNext ==
    \/ attach
    \/ detach
    \/ consoleHandler
    \/ responseHandler
    \/ requestFailedHandler

ConsoleSpec == ConsoleInit /\ [][ConsoleNext]_vars

----------------------------------------------------------------------------
(* Properties of the result                                                 *)

DefaultOptions == DOMAIN options = {"isFullPage"}

FinalMaxDim == Max(transformInfo.finalWidth, transformInfo.finalHeight)

\* The tall-page case as the claims word it.
IsTallPage == isFullPage /\ originalHeight > 3 * originalWidth

\* C1: every result has max(finalWidth, finalHeight) <= maxDimension (8000),
\* for either value of isFullPage and whatever the encoder returns.
C1_FinalWithinMaxDimension ==
    Done => FinalMaxDim <= LLM_LIMITS.maxDimension

\* C2: every result has qualityFloor <= finalQuality <= initialQuality; stated
\* for the invocations that run with the default initial quality, where the
\* claim reads 60 <= quality <= 85.
C2_QualityWithinFloorAndInitial ==
    (Done /\ "quality" \notin DOMAIN options) =>
        /\ IMAGE_DEFAULTS.minJpegQuality <= transformInfo.quality
        /\ transformInfo.quality <= IMAGE_DEFAULTS.jpegQuality

\* C3: every tall-page invocation (isFullPage and height > 3 x width) returns
\* finalWidth >= minReadableWidth, also after the forced resize.
C3_TallPageKeepsReadableWidth ==
    (Done /\ IsTallPage) =>
        transformInfo.finalWidth >= LLM_LIMITS.minReadableWidth

\* C4 as stated: every capture with max(width, height) > maxDimension ends
\* with max(finalWidth, finalHeight) <= optimalDimension.
C4_HugeCaptureEndsWithinOptimal ==
    (Done /\ Max(originalWidth, originalHeight) > LLM_LIMITS.maxDimension) =>
        FinalMaxDim <= LLM_LIMITS.optimalDimension

\* C4 amended: every capture with max(width, height) > maxDimension that is
\* not a tall-page capture (isFullPage false, or height <= 3 x width) ends
\* with max(finalWidth, finalHeight) <= optimalDimension.
C4_HugeNonTallCaptureEndsWithinOptimal ==
    (/\ Done
     /\ Max(originalWidth, originalHeight) > LLM_LIMITS.maxDimension
     /\ ~IsTallPage) =>
        FinalMaxDim <= LLM_LIMITS.optimalDimension

\* A full-page capture above the hard limit that is not tall: it was cut to
\* the optimal dimension.
C4_Witness ==
    /\ Done
    /\ Max(originalWidth, originalHeight) > LLM_LIMITS.maxDimension
    /\ isFullPage /\ ~IsTallPage
    /\ transformInfo.resized
    /\ FinalMaxDim = LLM_LIMITS.optimalDimension

\* C5 as stated, read for the default options: every capture that the
\* tall-page policy does not handle and whose max dimension exceeds
\* optimalDimension ends with max(finalWidth, finalHeight) <= optimalDimension.
C5_NonTallCaptureEndsWithinOptimal ==
    (/\ Done /\ DefaultOptions
     /\ ~IsTallPage
     /\ Max(originalWidth, originalHeight) > LLM_LIMITS.optimalDimension) =>
        FinalMaxDim <= LLM_LIMITS.optimalDimension

\* C5 amended: every capture that is not a full-page capture, processed with
\* a maxDimension option not above optimalDimension (the default), and whose
\* max dimension exceeds optimalDimension ends within optimalDimension.
C5_NonFullPageCaptureEndsWithinOptimal ==
    (/\ Done
     /\ ~isFullPage
     /\ maxDimension <= LLM_LIMITS.optimalDimension
     /\ Max(originalWidth, originalHeight) > LLM_LIMITS.optimalDimension) =>
        FinalMaxDim <= LLM_LIMITS.optimalDimension

\* A normal capture between the optimal dimension and the hard limit, cut to
\* exactly the optimal dimension.
C5_Witness ==
    /\ Done /\ DefaultOptions /\ ~isFullPage
    /\ Max(originalWidth, originalHeight) > LLM_LIMITS.optimalDimension
    /\ Max(originalWidth, originalHeight) <= LLM_LIMITS.maxDimension
    /\ transformInfo.resized
    /\ FinalMaxDim = LLM_LIMITS.optimalDimension

\* C6: a non-full-page capture processed with the option maxDimension = M
\* ends with max(finalWidth, finalHeight) <= M, for every input size.
C6_CustomMaxDimensionRespected ==
    (Done /\ ~isFullPage /\ "maxDimension" \in DOMAIN options) =>
        FinalMaxDim <= options.maxDimension

----------------------------------------------------------------------------
(* Properties of the transform log and of the quality loop                  *)

QualityTagPositions(ts) == { i \in 1..Len(ts) : IsQualityTag(ts[i]) }

\* At most one quality tag, and it carries the current quality.
OneCurrentQualityTag(ts, q) ==
    /\ Cardinality(QualityTagPositions(ts)) <= 1
    /\ \A i \in QualityTagPositions(ts) : ts[i].quality = q

\* A step that changes the quality while a tag exists keeps the log's length
\* and the tag's position.
QualityTagReplacedInPlace ==
    (quality' # quality /\ QualityTagPositions(transforms) # {}) =>
        /\ Len(transforms') = Len(transforms)
        /\ QualityTagPositions(transforms') = QualityTagPositions(transforms)

\* C7: at every point of processImage and in the result, the log holds at
\* most one jpeg_quality tag, its value is the current quality, and a quality
\* decrement replaces the tag in place instead of appending another.
C7_SingleQualityTag ==
    /\ [](/\ OneCurrentQualityTag(transforms, quality)
          /\ Done => OneCurrentQualityTag(transformInfo.transforms,
                                          transformInfo.quality))
    /\ [][QualityTagReplacedInPlace]_vars

\* Three decrements have rewritten the tag pushed for a PNG input.
C7_Witness ==
    /\ Done
    /\ originalFormat = "png"
    /\ Len(encodes) >= 4
    /\ transformInfo.quality < initialQuality
    /\ QualityTagPositions(transformInfo.transforms) # {}

\* The encodes of steps 3 and 4 (the forced resize re-encodes at the quality
\* the loop ended with).
IsLoopEncode(e) == e.stage # "forced"
LoopEncodes == SelectSeq(encodes, IsLoopEncode)

\* C8: the qualities encoded at are initialQuality, then each exactly
\* qualityStep below the one before; a decrement is made only after an encode
\* that was over the target at a quality above the floor, and the loop is left
\* at the first encode within the target or not above the floor.
C8_QualityDescendsByStep ==
    /\ LoopEncodes # <<>> => LoopEncodes[1].quality = initialQuality
    /\ \A i \in 2..Len(LoopEncodes) :
          /\ LoopEncodes[i].quality =
                LoopEncodes[i - 1].quality - IMAGE_DEFAULTS.qualityStep
          /\ LoopEncodes[i - 1].size > targetSize
          /\ LoopEncodes[i - 1].quality > IMAGE_DEFAULTS.minJpegQuality
    /\ pc \in {"final", "done"} =>
          \/ LoopEncodes[Len(LoopEncodes)].size <= targetSize
          \/ LoopEncodes[Len(LoopEncodes)].quality <= IMAGE_DEFAULTS.minJpegQuality
    /\ \A i \in 1..Len(encodes) :
          ~IsLoopEncode(encodes[i]) =>
              /\ i = Len(encodes) /\ i >= 2
              /\ encodes[i].quality = encodes[i - 1].quality

\* The loop ran down from the default quality and stopped on an encode that
\* met the target.
C8_Witness ==
    /\ Done
    /\ Len(LoopEncodes) = 3
    /\ LoopEncodes[1].quality = IMAGE_DEFAULTS.jpegQuality
    /\ LoopEncodes[3].size <= targetSize

\* ceil(n / d) for d > 0.
CeilDiv(n, d) == -((-n) \div d)

ForcedEncodes == { i \in 1..Len(encodes) : encodes[i].stage = "forced" }

\* The forced resize happens at most once and nothing but the result follows.
ForcedResizeIsLast ==
    /\ Cardinality(ForcedEncodes) <= 1
    /\ ForcedEncodes # {} => pc \in {"final", "done", "failed"}

\* C9 as stated (its bounds, which a finite run decides): the forced resize
\* is applied at most once and is followed by no further iteration, and the
\* JPEG encode calls number at most
\* 1 + ceil((initialQuality - qualityFloor) / qualityStep) + 1.
C9_EncodesBoundedByFormula ==
    /\ ForcedResizeIsLast
    /\ Len(encodes) <=
          1 + CeilDiv(initialQuality - IMAGE_DEFAULTS.minJpegQuality,
                      IMAGE_DEFAULTS.qualityStep) + 1

EncodesWithinBound ==
    Len(encodes) <=
        1 + Max(0, CeilDiv(initialQuality - IMAGE_DEFAULTS.minJpegQuality,
                           IMAGE_DEFAULTS.qualityStep)) + 1

\* A measure of the work left; it is a natural number in every state.
StepsLeft ==
    LET decrementsLeft ==
            Max(0, CeilDiv(quality - IMAGE_DEFAULTS.minJpegQuality,
                           IMAGE_DEFAULTS.qualityStep))
    IN  CASE pc = "resize" -> 4 + decrementsLeft
          [] pc = "encode" -> 3 + decrementsLeft
          [] pc = "loop"   -> 2 + decrementsLeft
          [] pc = "final"  -> 1
          [] pc = "done"   -> 0
          [] pc = "failed" -> 0

\* C9 amended: every invocation ends whatever sizes the encoder returns
\* (each step lowers StepsLeft, so no run goes on for ever), the forced
\* resize is applied at most once and is followed by no further iteration,
\* and the JPEG encode calls number at most
\* 1 + max(0, ceil((initialQuality - qualityFloor) / qualityStep)) + 1.
C9_TerminatesWithBoundedEncodes ==
    /\ [](ForcedResizeIsLast /\ EncodesWithinBound)
    /\ [][StepsLeft' < StepsLeft]_vars

\* The worst case with the defaults: five encodes, the last one forced.
C9_Witness ==
    /\ Done
    /\ initialQuality = IMAGE_DEFAULTS.jpegQuality
    /\ Len(encodes) = 5
    /\ ForcedEncodes = {5}

\* C10 as stated, read for the default options: a capture with
\* max(width, height) <= optimalDimension whose first encode is within the
\* target is returned with resized = false and its original dimensions, for
\* either value of isFullPage.
C10_SmallCaptureUntouched ==
    (/\ Done /\ DefaultOptions
     /\ Max(originalWidth, originalHeight) <= LLM_LIMITS.optimalDimension
     /\ encodes[1].size <= targetSize) =>
        /\ ~transformInfo.resized
        /\ transformInfo.finalWidth = originalWidth
        /\ transformInfo.finalHeight = originalHeight

\* C10 amended: the same for every capture that is not a tall-page capture
\* (isFullPage false, or height <= 3 x width) and whose max dimension is also
\* within the maxDimension option in force.
C10_SmallNonTallCaptureUntouched ==
    (/\ Done
     /\ ~IsTallPage
     /\ Max(originalWidth, originalHeight) <= LLM_LIMITS.optimalDimension
     /\ Max(originalWidth, originalHeight) <= maxDimension
     /\ encodes[1].size <= targetSize) =>
        /\ ~transformInfo.resized
        /\ transformInfo.finalWidth = originalWidth
        /\ transformInfo.finalHeight = originalHeight

\* A small full-page capture that is not tall came back untouched.
C10_Witness ==
    /\ Done /\ isFullPage /\ ~IsTallPage
    /\ Max(originalWidth, originalHeight) <= LLM_LIMITS.optimalDimension
    /\ encodes[1].size <= targetSize
    /\ ~transformInfo.resized
    /\ transformInfo.finalWidth = originalWidth
    /\ transformInfo.finalHeight = originalHeight

----------------------------------------------------------------------------
(* Untouched results                                                        *)

OriginalMaxDim == Max(originalWidth, originalHeight)

Untouched == Done /\ ~transformInfo.resized /\ ~transformInfo.compressed

FirstEncodeOnlyAndWithinTarget ==
    /\ Len(encodes) = 1
    /\ encodes[1].stage = "initial"
    /\ encodes[1].quality = initialQuality
    /\ encodes[1].size <= targetSize

\* C11 as claimed: a result with resized = false and compressed = false is
\* returned only when the first encode at the initial quality was within the
\* target, no quality decrement ran, and the original's larger side was within
\* maxDimension (8000) and within optimalDimension (1568).  Stated for the
\* default options.
C11_UntouchedOnlyWithinOptimal ==
    (DefaultOptions /\ Untouched) =>
        /\ FirstEncodeOnlyAndWithinTarget
        /\ OriginalMaxDim <= LLM_LIMITS.maxDimension
        /\ OriginalMaxDim <= LLM_LIMITS.optimalDimension

\* C11: a result with resized = false and compressed = false is returned only
\* when the first encode at the initial quality was within the target, no
\* quality decrement ran, and the original's larger side was within
\* maxDimension (8000); for a capture that is not full-page it was also within
\* the maxDimension option in force (optimalDimension unless overridden).
C11_UntouchedOnlyWithinBudgets ==
    Untouched =>
        /\ FirstEncodeOnlyAndWithinTarget
        /\ OriginalMaxDim <= LLM_LIMITS.maxDimension
        /\ ~isFullPage =>
              OriginalMaxDim <= (IF "maxDimension" \in DOMAIN options
                                 THEN options.maxDimension
                                 ELSE LLM_LIMITS.optimalDimension)

C11_Witness ==
    /\ Untouched
    /\ isFullPage
    /\ OriginalMaxDim > LLM_LIMITS.optimalDimension

----------------------------------------------------------------------------
(* The 1200x6000 full-page scenario                                         *)

Is1200x6000FullPage ==
    isFullPage /\ originalWidth = 1200 /\ originalHeight = 6000

HasTag(ts, name) == \E i \in 1..Len(ts) : ts[i].tag = name

\* C12 as claimed: a 1200x6000 full-page capture (minReadableWidth 800, height
\* bound 7500) ends with height <= 7500 and width = 800.
C12_TallPageScenarioEnds800Wide ==
    (Done /\ Is1200x6000FullPage) =>
        /\ transformInfo.finalHeight <= fullPageMaxHeight
        /\ transformInfo.finalWidth = LLM_LIMITS.minReadableWidth

\* C12: a 1200x6000 full-page capture ends with height <= 7500 and width >=
\* 800.  The tall-page policy leaves it alone (6000 <= 7500, 1200 >= 800), so
\* the result is 1200x6000 unless the forced resize shrinks it, and then the
\* width lies between 800 and 1200.
C12_TallPageScenarioKeepsItsWidth ==
    (Done /\ Is1200x6000FullPage) =>
        /\ transformInfo.finalHeight <= fullPageMaxHeight
        /\ ~HasTag(transformInfo.transforms, "fullpage_resize")
        /\ IF HasTag(transformInfo.transforms, "forced_resize_to")
           THEN /\ transformInfo.finalWidth >= LLM_LIMITS.minReadableWidth
                /\ transformInfo.finalWidth <= 1200
           ELSE /\ transformInfo.finalWidth = 1200
                /\ transformInfo.finalHeight = 6000
                /\ ~transformInfo.resized

C12_Witness ==
    /\ Done /\ Is1200x6000FullPage
    /\ transformInfo.finalWidth = 1200
    /\ transformInfo.finalHeight = 6000

----------------------------------------------------------------------------
(* Aspect ratio on the isotropic-cap path                                   *)

Abs(n) == IF n < 0 THEN -n ELSE n

\* The state right after calculateResizeDimensions was applied: currentWidth
\* and currentHeight hold its result.
IsotropicCapApplied ==
    /\ pc = "encode"
    /\ \/ HasTag(transforms, "resized_from")
       \/ HasTag(transforms, "resized_to_optimal")

\* The bound that was handed to calculateResizeDimensions.
AppliedCapBound ==
    IF HasTag(transforms, "resized_from")
    THEN LLM_LIMITS.optimalDimension
    ELSE IF "maxDimension" \in DOMAIN options
         THEN options.maxDimension ELSE LLM_LIMITS.optimalDimension

\* |fw / fh - w / h| < 0.01, on integers: 100 * |fw * h - w * fh| < fh * h.
RatioWithinHundredth(fw, fh, w, h) ==
    /\ fh > 0
    /\ Abs(fw * h - w * fh) <= (fh * h - 1) \div 100

\* |f - o * bound / maxDim| <= 1/2
WithinHalfPixel(f, o, bound, maxDim) ==
    2 * Abs(f * maxDim - o * bound) <= maxDim

\* C13 as claimed: on the isotropic-cap path the aspect ratio is preserved,
\* |finalWidth/finalHeight - originalWidth/originalHeight| < 0.01, for all
\* input dimensions including extreme aspect ratios.
C13_AspectRatioWithinHundredth ==
    IsotropicCapApplied =>
        RatioWithinHundredth(currentWidth, currentHeight,
                             originalWidth, originalHeight)

\* C13: on the isotropic-cap path each resulting side is within half a pixel
\* of the exactly scaled side, and |finalWidth/finalHeight -
\* originalWidth/originalHeight| < 0.01 holds whenever the width is the
\* shorter side (width <= height).
C13_AspectRatioUpToRounding ==
    IsotropicCapApplied =>
        /\ WithinHalfPixel(currentWidth, originalWidth, AppliedCapBound,
                           OriginalMaxDim)
        /\ WithinHalfPixel(currentHeight, originalHeight, AppliedCapBound,
                           OriginalMaxDim)
        /\ originalWidth <= originalHeight =>
              RatioWithinHundredth(currentWidth, currentHeight,
                                   originalWidth, originalHeight)

\* A portrait capture was capped and its width had to be rounded.
C13_Witness ==
    /\ IsotropicCapApplied
    /\ originalWidth < originalHeight
    /\ currentWidth * OriginalMaxDim # originalWidth * AppliedCapBound

----------------------------------------------------------------------------
(* Idempotence                                                              *)

SecondRunDone == Done /\ "finalWidth" \in DOMAIN previousResult

EncodesAllWithinTarget ==
    \A i \in 1..Len(encodes) : encodes[i].size <= targetSize

\* C14: processImage run again on its own output, with the same options, is
\* a fixed point: the second run returns resized = false, the same final
\* width and height, and a quality not below the first run's.  Stated for
\* second runs whose encodes all come out within the byte budget, the case
\* most favourable to the claim.
C14_RerunIsFixedPoint ==
    (SecondRunDone /\ EncodesAllWithinTarget) =>
        /\ ~transformInfo.resized
        /\ transformInfo.finalWidth = previousResult.finalWidth
        /\ transformInfo.finalHeight = previousResult.finalHeight
        /\ transformInfo.quality >= previousResult.quality

----------------------------------------------------------------------------
(* Priority of the tall-page rule                                           *)

InitialResizeTagNames == {"fullpage_resize", "resized_from", "resized_to_optimal"}

InitialResizeTags(ts) ==
    { i \in 1..Len(ts) : ts[i].tag \in InitialResizeTagNames }

\* What the tall-page policy makes of the original dimensions.
TallPagePolicyDims ==
    calculateFullPageDimensions(originalWidth, originalHeight,
                                LLM_LIMITS.minReadableWidth,
                                LLM_LIMITS.maxDimension - 500)

\* The initial resize step of a tall full-page capture applies the tall-page
\* policy and nothing else.
TallPageRuleApplied ==
    (pc = "resize" /\ pc' = "encode" /\ IsTallPage) =>
        /\ currentWidth' = TallPagePolicyDims.width
        /\ currentHeight' = TallPagePolicyDims.height
        /\ ~HasTag(transforms', "resized_from")
        /\ ~HasTag(transforms', "resized_to_optimal")

\* C15: whenever isFullPage is true and height > 3 x width, the tall-page
\* policy is the one applied, even if max(width, height) > maxDimension; one
\* invocation takes at most one of the three initial-resize branches, so the
\* log holds at most one initial-resize tag.
C15_TallPageRuleHasPriority ==
    /\ [](Cardinality(InitialResizeTags(transforms)) <= 1)
    /\ [][TallPageRuleApplied]_vars

\* A tall full-page capture over the hard limit went through the tall-page
\* policy.
C15_Witness ==
    /\ pc = "encode"
    /\ IsTallPage
    /\ OriginalMaxDim > LLM_LIMITS.maxDimension
    /\ HasTag(transforms, "fullpage_resize")
    /\ Cardinality(InitialResizeTags(transforms)) = 1

----------------------------------------------------------------------------
(* The byte budget of a normal capture                                      *)

NormalCaptureDone ==
    Done /\ ~isFullPage /\ ~("targetSize" \in DOMAIN options)

\* C16 as claimed: the finalSize of a normal (not full-page) capture does not
\* exceed LLM_LIMITS.targetSize, whatever sizes the encoder produced in the
\* quality loop and in the forced resize.  Stated for the default options.
C16_NormalCaptureWithinTarget ==
    (NormalCaptureDone /\ DefaultOptions) =>
        transformInfo.finalSize <= LLM_LIMITS.targetSize

\* C16: the finalSize of a normal capture does not exceed
\* LLM_LIMITS.targetSize unless the forced resize was applied; the encode
\* after the forced resize is returned whatever its size.
C16_NormalCaptureWithinTargetUnlessForced ==
    (NormalCaptureDone /\ ~HasTag(transformInfo.transforms, "forced_resize_to"))
        => transformInfo.finalSize <= LLM_LIMITS.targetSize

\* The quality loop brought a normal capture within the budget.
C16_Witness ==
    /\ NormalCaptureDone
    /\ ~HasTag(transformInfo.transforms, "forced_resize_to")
    /\ Len(encodes) > 1
    /\ encodes[1].size > LLM_LIMITS.targetSize
    /\ transformInfo.finalSize <= LLM_LIMITS.targetSize

----------------------------------------------------------------------------
(* Captures without dimensions                                              *)

\* The metadata of the capture reports no width or height: getImageInfo
\* answers 0 for it.
MissingDimensions ==
    \/ getImageInfo(inputBuffer).width = 0
    \/ getImageInfo(inputBuffer).height = 0

\* C17: when the metadata reports a width or height of zero (or none),
\* processImage fails instead of carrying 0 as a dimension into the strategy
\* selection, the ratio computation and the result: it goes no further than
\* reading the metadata.
C17_MissingDimensionsFailDecode ==
    MissingDimensions => pc \in {"resize", "failed"}

----------------------------------------------------------------------------
(* Failure of a step                                                        *)

Failed == pc = "failed"

\* A returned result is the outcome of a whole run: the last encode is the
\* returned buffer, the loop had finished, and a buffer over the budget had
\* gone through the forced resize.
ResultIsComplete ==
    /\ Len(encodes) >= 1
    /\ transformInfo.finalSize = encodes[Len(encodes)].size
    /\ transformInfo.quality = encodes[Len(encodes)].quality
    /\ \/ encodes[Len(encodes)].stage = "forced"
       \/ /\ ~(transformInfo.finalSize > targetSize)
          /\ ~HasTag(transformInfo.transforms, "forced_resize_to")

\* C18: when the metadata extraction, a resize or an encode fails, the
\* invocation fails as a whole: nothing is returned (no ProcessedImage, no
\* transform log, no partial buffer), the failed step is not retried and no
\* further step is taken; a result is only ever returned by a run that went
\* through to the end.
C18_FailureIsFatal ==
    /\ [](Failed => transformInfo = NoResult)
    /\ [](Done => ResultIsComplete)
    /\ [][~Failed /\ (Failed' => UNCHANGED <<encodes, currentBuffer>>)]_vars

\* The second decrement's encode failed: two encodes are on record, nothing
\* is returned.
C18_Witness ==
    /\ Failed
    /\ Len(encodes) = 2
    /\ LoopContinues(currentSize, quality)
    /\ transformInfo = NoResult

----------------------------------------------------------------------------
(* An invalid byte budget                                                   *)

InvalidBudget == targetSize <= 0

\* C19: a byte budget that is not positive (options.targetSize <= 0) is
\* rejected before any encode happens; the quality loop never runs against
\* it.
C19_InvalidBudgetRejectedBeforeEncode ==
    InvalidBudget => encodes = <<>>

----------------------------------------------------------------------------
(* The limit on the kept screenshots                                        *)

LimitSet == "maxScreenshots" \in DOMAIN storageConfig

LatestIsKept ==
    saved # NoSaveResult => saved.filename \in FileNames(files)

\* What a saveScreenshot step removed from the directory: the files gone by
\* name, and the file it wrote if that is gone too.
RemovedBySave ==
    { f \in files : f.file \notin FileNames(files') } \cup
    ( IF "filename" \in DOMAIN saved'
      THEN { f \in {[file |-> saved'.filename, mtime |-> clock]} :
               f.file \notin FileNames(files') }
      ELSE {} )

\* A step of saveScreenshot: the clock stands still.
OldestRemovedFirst ==
    clock' = clock =>
        \A old \in RemovedBySave, kept \in files' : old.mtime <= kept.mtime

\* C20: with DEVEYES_MAX_SCREENSHOTS = N (N >= 1), after any sequence of
\* saveScreenshot calls the directory holds at most N .jpg files, the files
\* kept are the N most recently modified ones, and the file written by the
\* latest call is among them.
C20_KeepsTheLatestScreenshots ==
    /\ [](LimitSet => /\ Cardinality(files) <= storageConfig.maxScreenshots
                      /\ LatestIsKept)
    /\ [][LimitSet => OldestRemovedFirst]_vars

----------------------------------------------------------------------------
(* The transform log                                                        *)

\* The place of a tag in the causal order.
TagRank(t) ==
    CASE t.tag \in InitialResizeTagNames -> 1
      [] t.tag = "jpeg_quality"           -> 2
      [] t.tag = "forced_resize_to"       -> 3

\* Ranks rise strictly along the log: one tag of each kind at most, in order.
InCausalOrder(ts) ==
    \A i, j \in 1..Len(ts) : i < j => TagRank(ts[i]) < TagRank(ts[j])

\* The size of the buffer when the quality loop ended.
SizeAfterLoop == LoopEncodes[Len(LoopEncodes)].size

\* C22: in every returned transform log the tags are in causal order: the
\* initial-resize tag (if any), then the single quality tag (if any), then
\* the forced-resize tag (if any); the forced-resize tag is present exactly
\* when the size still exceeded the target after the quality loop, and it is
\* the last entry.  The order holds of the log at every step as well.
C22_LogInCausalOrder ==
    /\ InCausalOrder(transforms)
    /\ Done =>
          /\ transformInfo.transforms = transforms
          /\ HasTag(transforms, "forced_resize_to") <=> SizeAfterLoop > targetSize
          /\ HasTag(transforms, "forced_resize_to") =>
                transforms[Len(transforms)].tag = "forced_resize_to"

\* A log with all three kinds of tag.
C22_Witness ==
    /\ Done
    /\ Len(transformInfo.transforms) = 3
    /\ transformInfo.transforms[1].tag \in InitialResizeTagNames
    /\ transformInfo.transforms[2].tag = "jpeg_quality"
    /\ transformInfo.transforms[3].tag = "forced_resize_to"

\* The value of the quality tag of a log that has one.
QualityOfTag(ts) == ts[QualityTransformIndex(ts)].quality

\* C23: the flags of the result agree with its log: resized = true exactly
\* when the log holds an initial-resize or forced-resize tag, compressed =
\* true exactly when it holds a quality tag, and the quality field equals
\* the value of that tag whenever there is one.
C23_FlagsAgreeWithLog ==
    Done =>
        LET ts == transformInfo.transforms
        IN  /\ transformInfo.resized <=>
                  (InitialResizeTags(ts) # {} \/ HasTag(ts, "forced_resize_to"))
            /\ transformInfo.compressed <=> HasTag(ts, "jpeg_quality")
            /\ HasTag(ts, "jpeg_quality") =>
                  transformInfo.quality = QualityOfTag(ts)

\* A JPEG capture that was resized to the optimal dimension and whose quality
\* was lowered twice.
C23_Witness ==
    /\ Done
    /\ originalFormat = "jpeg"
    /\ transformInfo.resized /\ transformInfo.compressed
    /\ HasTag(transformInfo.transforms, "resized_to_optimal")
    /\ transformInfo.quality = IMAGE_DEFAULTS.jpegQuality - 2 * IMAGE_DEFAULTS.qualityStep
    /\ QualityOfTag(transformInfo.transforms) = transformInfo.quality

----------------------------------------------------------------------------
(* The isotropic cap as a function                                          *)

\* The capture has dimensions.
Sized == originalWidth > 0 /\ originalHeight > 0

\* The bounds calculateResizeDimensions is called with, and the hard limit.
CapBounds ==
    {maxDimension, LLM_LIMITS.optimalDimension, LLM_LIMITS.maxDimension}

\* What calculateResizeDimensions makes of the capture for the bound b.
Capped(b) == calculateResizeDimensions(originalWidth, originalHeight, b)

\* The initial resize of the pipeline hands on what the function returned.
CapIsTheFunction ==
    IsotropicCapApplied =>
        /\ currentWidth = Capped(AppliedCapBound).width
        /\ currentHeight = Capped(AppliedCapBound).height

\* C24 as claimed: calculateResizeDimensions(w, h, bound) returns (w, h)
\* unchanged when max(w, h) <= bound; otherwise it returns
\* (round(w * bound / max), round(h * bound / max)), so the larger output
\* dimension equals bound exactly and the smaller one is <= bound.
C24_CapRoundsHalvesUp ==
    Sized =>
        \A b \in CapBounds :
            IF OriginalMaxDim <= b
            THEN Capped(b) = [width |-> originalWidth, height |-> originalHeight]
            ELSE /\ Capped(b).width = RoundDiv(originalWidth * b, OriginalMaxDim)
                 /\ Capped(b).height = RoundDiv(originalHeight * b, OriginalMaxDim)
                 /\ Max(Capped(b).width, Capped(b).height) = b
                 /\ Min(Capped(b).width, Capped(b).height) <= b

\* C24: calculateResizeDimensions(w, h, bound) returns (w, h) unchanged when
\* max(w, h) <= bound; otherwise each returned side is a nearest integer of
\* side * bound / max, the one round() gives except that an exact half may
\* be rounded downwards; the larger output dimension equals bound exactly
\* and the smaller one is <= bound.  The pipeline resizes to what the
\* function returned.
C24_CapRoundsToNearest ==
    /\ CapIsTheFunction
    /\ Sized =>
          \A b \in CapBounds :
              IF OriginalMaxDim <= b
              THEN Capped(b) = [width |-> originalWidth, height |-> originalHeight]
              ELSE /\ WithinHalfPixel(Capped(b).width, originalWidth, b,
                                      OriginalMaxDim)
                   /\ WithinHalfPixel(Capped(b).height, originalHeight, b,
                                      OriginalMaxDim)
                   /\ ~IsHalf(originalWidth * b, OriginalMaxDim) =>
                         Capped(b).width =
                             RoundDiv(originalWidth * b, OriginalMaxDim)
                   /\ ~IsHalf(originalHeight * b, OriginalMaxDim) =>
                         Capped(b).height =
                             RoundDiv(originalHeight * b, OriginalMaxDim)
                   /\ Max(Capped(b).width, Capped(b).height) = b
                   /\ Min(Capped(b).width, Capped(b).height) <= b

\* The 2000 x 1500 capture was capped to 1568 x 1176.
C24_Witness ==
    /\ IsotropicCapApplied
    /\ originalWidth = 2000 /\ originalHeight = 1500
    /\ AppliedCapBound = LLM_LIMITS.optimalDimension
    /\ currentWidth = 1568 /\ currentHeight = 1176

----------------------------------------------------------------------------
(* The tall-page policy as a function                                       *)

\* f is a nearest integer of n / d.
NearestTo(f, n, d) == 2 * Abs(f * d - n) <= d

\* f is round(n / d), or, where n / d is an exact half, either neighbour.
RoundedUpToHalves(f, n, d) ==
    /\ NearestTo(f, n, d)
    /\ ~IsHalf(n, d) => f = RoundDiv(n, d)

\* C25 as claimed: calculateFullPageDimensions(w, h, minWidth, maxHeight)
\* follows the tall-page policy for all positive inputs: if h > maxHeight and
\* round(maxHeight*w/h) >= minWidth it returns (round(maxHeight*w/h),
\* maxHeight); if h > maxHeight and that scaled width < minWidth it returns
\* (minWidth, min(round(minWidth*h/w), maxHeight)); if h <= maxHeight and
\* w < minWidth it returns (minWidth, round(minWidth*h/w)); otherwise (w, h).
\* In the h > maxHeight cases the output height is <= maxHeight and the
\* output width is >= minWidth.
C25_TallPagePolicyRoundsHalvesUp ==
    Sized =>
        LET w == originalWidth
            h == originalHeight
            minWidth == LLM_LIMITS.minReadableWidth
            maxHeight == fullPageMaxHeight
            scaledWidth == RoundDiv(maxHeight * w, h)
            newHeight == RoundDiv(minWidth * h, w)
            out == TallPagePolicyDims
        IN  /\ (h > maxHeight /\ scaledWidth >= minWidth) =>
                   out = [width |-> scaledWidth, height |-> maxHeight]
            /\ (h > maxHeight /\ scaledWidth < minWidth) =>
                   out = [width |-> minWidth, height |-> Min(newHeight, maxHeight)]
            /\ (h <= maxHeight /\ w < minWidth) =>
                   out = [width |-> minWidth, height |-> newHeight]
            /\ (h <= maxHeight /\ w >= minWidth) =>
                   out = [width |-> w, height |-> h]
            /\ h > maxHeight =>
                   out.height <= maxHeight /\ out.width >= minWidth

\* C25: calculateFullPageDimensions(w, h, minWidth, maxHeight) follows the
\* tall-page policy, its roundings being round() except that an exact half
\* may be rounded downwards: if h > maxHeight it returns (scaledWidth,
\* maxHeight) when the rounded maxHeight*w/h is >= minWidth and (minWidth,
\* maxHeight) when it is not; if h <= maxHeight and w < minWidth it returns
\* minWidth and the rounded minWidth*h/w; otherwise (w, h).  In the
\* h > maxHeight cases the output height is <= maxHeight and the output
\* width is >= minWidth.
C25_TallPagePolicyRoundsToNearest ==
    Sized =>
        LET w == originalWidth
            h == originalHeight
            minWidth == LLM_LIMITS.minReadableWidth
            maxHeight == fullPageMaxHeight
            out == TallPagePolicyDims
        IN  /\ h > maxHeight =>
                   /\ out.height = maxHeight
                   /\ out.width >= minWidth
                   /\ \/ RoundedUpToHalves(out.width, maxHeight * w, h)
                      \/ /\ out.width = minWidth
                         /\ 2 * maxHeight * w < (2 * minWidth + 1) * h
                   /\ out.width > minWidth =>
                         RoundedUpToHalves(out.width, maxHeight * w, h)
            /\ (h <= maxHeight /\ w < minWidth) =>
                   /\ out.width = minWidth
                   /\ RoundedUpToHalves(out.height, minWidth * h, w)
            /\ (h <= maxHeight /\ w >= minWidth) =>
                   out = [width |-> w, height |-> h]

\* The tall-page policy brought a full-page capture higher than the bound
\* to the bound, its width staying above the minimum.
C25_Witness ==
    /\ pc = "encode"
    /\ HasTag(transforms, "fullpage_resize")
    /\ originalHeight > fullPageMaxHeight
    /\ currentHeight = fullPageMaxHeight
    /\ currentWidth > LLM_LIMITS.minReadableWidth
    /\ currentWidth = TallPagePolicyDims.width
    /\ currentWidth * originalHeight # fullPageMaxHeight * originalWidth

----------------------------------------------------------------------------
(* The forced resize as a reduction                                         *)

\* The step is the forced resize.
ForcedResizeFires ==
    /\ pc = "loop" /\ pc' = "final"
    /\ HasTag(transforms', "forced_resize_to")

----------------------------------------------------------------------------
(* Resize targets                                                           *)

\* The target of the initial resize the selector is about to take; the
\* current dimensions where it takes none.
InitialResizeTarget ==
    IF isFullPage /\ isVeryTall
    THEN calculateFullPageDimensions(currentWidth, currentHeight,
                                     LLM_LIMITS.minReadableWidth,
                                     fullPageMaxHeight)
    ELSE IF maxCurrentDim > LLM_LIMITS.maxDimension
    THEN calculateResizeDimensions(currentWidth, currentHeight, hardLimitTarget)
    ELSE IF maxCurrentDim > maxDimension /\ ~isFullPage
    THEN calculateResizeDimensions(currentWidth, currentHeight, maxDimension)
    ELSE [width |-> currentWidth, height |-> currentHeight]

\* The forced resize is what the function does next.
ForcedResizePending ==
    /\ pc = "loop"
    /\ ~LoopContinues(currentSize, quality)
    /\ currentSize > targetSize

\* C27: every resize target computed by the pipeline (isotropic cap,
\* tall-page policy, forced resize) has width >= 1 and height >= 1 whenever
\* the input width and height are >= 1; rounding never produces a zero
\* dimension.
C27_ResizeTargetsArePositive ==
    Sized =>
        /\ pc = "resize" =>
              InitialResizeTarget.width >= 1 /\ InitialResizeTarget.height >= 1
        /\ ForcedResizePending =>
              \A newDims \in ForcedResizeDims(currentWidth, currentHeight,
                                               currentSize) :
                  newDims.width >= 1 /\ newDims.height >= 1

----------------------------------------------------------------------------
(* Authentication state per domain                                          *)

ValidAuthUrls == { url \in AuthUrls : IsUrl(url) }

\* The step is a call of op that returned.
AuthCallReturns(op) ==
    /\ authResult'.op = op
    /\ "returned" \in DOMAIN authResult'

\* The step saves or deletes the state of the domain of url.
TouchesDomainOf(url) ==
    /\ AuthCallReturns("save") \/ AuthCallReturns("delete")
    /\ getDomainKey(authResult'.url) = getDomainKey(url)

\* Another hostname, or the same hostname with another port, one of the two
\* ports at least not being the default one.
OtherDomain(u, v) ==
    \/ ParseUrl(u).hostname # ParseUrl(v).hostname
    \/ ParseUrl(u).port # ParseUrl(v).port

\* C21: auth state is keyed per domain: after saveAuthState(u, s), for every
\* URL u' with getDomainKey(u') = getDomainKey(u) hasAuthState(u') is true
\* and loadAuthState(u') returns s, until deleteAuthState is called for that
\* domain; URLs with a different hostname or a different non-default port
\* never see s; deleteAuthState returns true exactly when a state existed
\* and afterwards hasAuthState is false.
C21_AuthStateIsPerDomain ==
    /\ [][AuthCallReturns("save") =>
             \A v \in ValidAuthUrls :
                 getDomainKey(v) = getDomainKey(authResult'.url) =>
                     /\ hasAuthState(v)'
                     /\ loadAuthState(v)' = authResult'.storageState]_vars
    /\ [][\A v \in ValidAuthUrls :
             ~TouchesDomainOf(v) => loadAuthState(v)' = loadAuthState(v)]_vars
    /\ [][AuthCallReturns("save") =>
             \A v \in ValidAuthUrls :
                 OtherDomain(authResult'.url, v) =>
                     loadAuthState(v)' = loadAuthState(v)]_vars
    /\ [][AuthCallReturns("delete") =>
             \A u \in ValidAuthUrls :
                 u = authResult'.url =>
                     /\ authResult'.returned = hasAuthState(u)
                     /\ ~hasAuthState(u)']_vars

\* The request c has ended: executeScreenshot resolved or rejected.
Ended(c) == calls[c].pc \in {"resolved", "rejected"}

\* C28: whenever an executeScreenshot call that created its page has resolved
\* or rejected, its console listeners are detached and its page and browser
\* context are closed, whichever await of the try block failed.
C28_PageIsClosedWhenTheCallEnds ==
    \A c \in Requests :
        (Ended(c) /\ calls[c].page # "none") =>
            /\ ~calls[c].listeners
            /\ calls[c].page = "closed"
            /\ calls[c].context = "closed"

\* A call rejected by a failure inside its try block, its page closed by its
\* own finally block (the browser is still running).
C28_Witness ==
    \E c \in Requests :
        /\ calls[c].pc = "rejected"
        /\ calls[c].failed
        /\ calls[c].page = "closed"
        /\ calls[c].context = "closed"
        /\ isConnected(calls[c].browser)

\* C29: the browser is a singleton: every browser that was launched and is
\* still running is the one browserInstance refers to, so there is at most
\* one and closeBrowser reaches it.
C29_BrowserIsSingleton ==
    \A b \in DOMAIN browsers : isConnected(b) => browserInstance = b

\* Whether messages of the category are recorded at all.
CaptureEnabled(category) ==
    CASE category = "info" -> captureOptions.captureInfo
      [] category = "logs" -> captureOptions.captureLogs
      [] OTHER -> TRUE

\* The first maxMessages of the messages, in their order, and the truncation
\* marker behind them if there were more.
FirstMessages(messages, maxMessages) ==
    IF Len(messages) <= maxMessages
    THEN messages
    ELSE SubSeq(messages, 1, maxMessages) \o <<TruncationMarker(maxMessages)>>

\* C30: whatever events were delivered, each category list is the first
\* maxMessages messages of its category in arrival order, followed by one
\* truncation marker if more arrived, so it is never longer than
\* maxMessages + 1; info and log messages are recorded, and returned by
\* getCapture, only when their capture option is enabled.
C30_ListsAreBoundedAndOrdered ==
    /\ \A category \in Categories :
          /\ Len(captured[category]) <= captureOptions.maxMessages + 1
          /\ captured[category] =
                IF CaptureEnabled(category)
                THEN FirstMessages(arrivals[category], captureOptions.maxMessages)
                ELSE <<>>
    /\ DOMAIN getCapture =
          { category \in Categories : CaptureEnabled(category) }
    /\ \A category \in DOMAIN getCapture :
          getCapture[category] = captured[category]

\* A list that is full and truncated after more messages arrived than it
\* shows, while info messages arrived that are not recorded.
C30_Witness ==
    /\ captureOptions.maxMessages = 1
    /\ Len(arrivals["errors"]) = 3
    /\ Len(captured["errors"]) = 2
    /\ captured["errors"][2] = TruncationMarker(1)
    /\ Len(arrivals["info"]) = 1
    /\ captured["info"] = <<>>

====
